---- MODULE Spec2Model ----
(***************************************************************************)
(* Mirage kernel: the L1 facade (process and thread tables, scheduler      *)
(* ring, IPC queues, cores) composed with the L2 security-domain table.    *)
(* Every `&mut self` method of the source is an operator from a value of   *)
(* the struct to the value after the call (and the call's result); every   *)
(* facade operation is one action.                                         *)
(***************************************************************************)
EXTENDS Integers, Sequences, FiniteSets, TLC

(***************************************************************************)
(* Bounds of the model.  MAX_PROC and MSG_DEPTH are the const generics of  *)
(* Kernel<MAX_PROC, MSG_DEPTH> (64 and 16 in main.rs); MAX_THREADS and     *)
(* MAX_CORES are the sizes of the thread table / scheduler ring and of the *)
(* core array (256 and 4 in the source), all scaled down.                  *)
(***************************************************************************)
MAX_PROC == 2
MSG_DEPTH == 2
MAX_THREADS == 3
MAX_CORES == 2
\* Spec: where the id counters, the message counter and the clock stop growing
MaxPid == 3
MaxTid == 3
MaxSeq == 1
MaxTicks == 1
\* IpcSpec: the same limits where processes queue and receive messages
IpcMaxPid == 2
IpcMaxSeq == 3
IpcMaxTicks == 1
\* AuthSpec: the same limits where processes of all credentials try to send
AuthMaxPid == 3
AuthMaxSeq == 1
\* SoloSpec: the same limits for a kernel running one process
SoloMaxTid == 4
SoloMaxSeq == 1
SoloMaxTicks == 2
\* FaultSpec: the same limits where quarantined processes meet the dispatcher
FaultMaxPid == 2
FaultMaxTid == 3
FaultMaxTicks == 2
\* CoreSpec: the same limits where several cores are online
CoreMaxTid == 2
CoreMaxTicks == 2
\* BootSpec: the same limits where kernels are bootstrapped again and again
BootMaxPid == 2
BootMaxTicks == 2
\* TableSpec: the largest pid registered in a security table driven on its own
MaxTablePid == 4
\* RingSpec: the number of enqueue calls on a scheduler driven on its own
MaxEnqueues == 5
\* ClockSpec: the width in bits of the clock's counter (64 in the source,
\* scaled down) and the number of concurrent callers
ClockBits == 3
MaxCallers == 2
\* LockSpec: the number of threads sharing a SpinLock and the number of
\* updates they make to the data it protects
MaxLockers == 3
MaxUpdates == 2
\* HeapSpec: the const generics of MemoryManager<HEAP_SIZE, MAX_AREAS>
\* (128 KiB and 512 in the source), the width in bits of a page (12 in the
\* source) and of usize (64 in the source), all scaled down
HEAP_SIZE == 32
MAX_AREAS == 2
PageBits == 4
UsizeBits == 7

(***************************************************************************)
(* Option<T>: None is the empty tuple, Some(x) the one-element tuple.      *)
(***************************************************************************)
None == <<>>
Some(x) == <<x>>
IsSome(o) == o /= <<>>
Unwrap(o) == o[1]

\* usize::saturating_sub(1)
SatDec(n) == IF n > 0 THEN n - 1 ELSE 0

(***************************************************************************)
(* subkernel: labels, classes, capabilities, credentials, task domains     *)
(***************************************************************************)
LevelPublic == 0
LevelInternal == 1
LevelConfidential == 2
LevelSystem == 3

\* a category bitmask is the set of its bit positions; u32::MAX is every bit
CategoryBits == 32
NoCategories == {}
AllCategories == 0 .. (CategoryBits - 1)

SecurityLabel_new(level, categories) == [level |-> level, categories |-> categories]
SecurityLabel_public == SecurityLabel_new(LevelPublic, NoCategories)
SecurityLabel_internal == SecurityLabel_new(LevelInternal, NoCategories)
SecurityLabel_confidential == SecurityLabel_new(LevelConfidential, NoCategories)
SecurityLabel_system == SecurityLabel_new(LevelSystem, AllCategories)

dominates(a, b) ==
    /\ a.level >= b.level
    /\ (a.categories \cap b.categories) = b.categories

SecurityClasses == {"Public", "Internal", "Confidential", "System"}

as_label(class) ==
    CASE class = "Public" -> SecurityLabel_public
      [] class = "Internal" -> SecurityLabel_internal
      [] class = "Confidential" -> SecurityLabel_confidential
      [] class = "System" -> SecurityLabel_system

CAP_IPC == 1
CAP_SPAWN == 2
CAP_KERNEL == 4
CAP_IO == 8

\* a capability bitmask is the set of the flag values it contains
CapabilitySet_none == {}
CapabilitySet_full == {CAP_IPC, CAP_SPAWN, CAP_KERNEL, CAP_IO}
CapabilitySet_ipc == {CAP_IPC}
allows_ipc(capabilities) == CAP_IPC \in capabilities

Credentials_new(label, capabilities, isolation) ==
    [label |-> label, capabilities |-> capabilities, isolation |-> isolation]
Credentials_system == Credentials_new(SecurityLabel_system, CapabilitySet_full, "Process")
Credentials_user == Credentials_new(SecurityLabel_internal, CapabilitySet_ipc, "None")

TaskDomain_from_credentials(pid, creds) ==
    [ pid |-> pid,
      label |-> creds.label,
      capabilities |-> creds.capabilities,
      isolation |-> creds.isolation,
      quarantine_events |-> 0 ]

can_transmit(domain, class) ==
    allows_ipc(domain.capabilities) /\ dominates(domain.label, as_label(class))

\* a mutation of can_receive: every class is accepted
can_receive_any(domain, class) == TRUE

can_receive(domain, class) == dominates(domain.label, as_label(class))

(***************************************************************************)
(* SecurityKernel<MAX_PROC>: the open-addressed domain table               *)
(***************************************************************************)
ProcSlots == 0 .. (MAX_PROC - 1)

SecurityKernel_new == [domains |-> [i \in ProcSlots |-> None], population |-> 0]

SecurityKernel_reset(sec) == SecurityKernel_new

\* raw >> 33, in steps that stay inside 32-bit integers
Shr33(raw) == ((raw \div 65536) \div 65536) \div 2

RECURSIVE BitXor(_, _)
BitXor(a, b) ==
    IF a = 0 THEN b
    ELSE IF b = 0 THEN a
    ELSE (((a % 2) + (b % 2)) % 2) + 2 * BitXor(a \div 2, b \div 2)

hash(pid) == IF MAX_PROC = 0 THEN 0 ELSE BitXor(pid, Shr33(pid)) % MAX_PROC

next_index(current) == IF MAX_PROC = 0 THEN 0 ELSE (current + 1) % MAX_PROC

\* the probe loop of insert_domain from slot idx with `probes` probes done
RECURSIVE insert_probe(_, _, _, _)
insert_probe(sec, domain, idx, probes) ==
    IF probes >= MAX_PROC THEN [sec |-> sec, res |-> "PolicyViolation"]
    ELSE IF IsSome(sec.domains[idx]) /\ Unwrap(sec.domains[idx]).pid = domain.pid
    THEN [ sec |-> [sec EXCEPT !.domains[idx] = Some(domain)], res |-> "Ok" ]
    ELSE IF IsSome(sec.domains[idx])
    THEN insert_probe(sec, domain, next_index(idx), probes + 1)
    ELSE [ sec |-> [sec EXCEPT !.domains[idx] = Some(domain),
                               !.population = sec.population + 1],
           res |-> "Ok" ]

\* a mutation of insert_domain: every successful insert counts as a new entry
insert_domain_counting(sec, domain) ==
    IF MAX_PROC = 0 THEN [sec |-> sec, res |-> "PolicyViolation"]
    ELSE LET r == insert_probe(sec, domain, hash(domain.pid), 0)
         IN IF r.res /= "Ok" THEN r
            ELSE [sec |-> [r.sec EXCEPT !.population = sec.population + 1], res |-> "Ok"]

insert_domain(sec, domain) ==
    IF MAX_PROC = 0 THEN [sec |-> sec, res |-> "PolicyViolation"]
    ELSE insert_probe(sec, domain, hash(domain.pid), 0)

RECURSIVE lookup_probe(_, _, _, _)
lookup_probe(sec, pid, idx, probes) ==
    IF probes >= MAX_PROC THEN None
    ELSE IF IsSome(sec.domains[idx]) /\ Unwrap(sec.domains[idx]).pid = pid
    THEN sec.domains[idx]
    ELSE IF IsSome(sec.domains[idx])
    THEN lookup_probe(sec, pid, next_index(idx), probes + 1)
    ELSE None

lookup(sec, pid) ==
    IF MAX_PROC = 0 THEN None ELSE lookup_probe(sec, pid, hash(pid), 0)

RECURSIVE rehash_loop(_, _, _)
rehash_loop(sec, idx, probes) ==
    IF probes >= MAX_PROC THEN sec
    ELSE IF ~IsSome(sec.domains[idx]) THEN sec
    ELSE LET domain == Unwrap(sec.domains[idx])
             cleared == [sec EXCEPT !.domains[idx] = None,
                                    !.population = SatDec(sec.population)]
         IN rehash_loop(insert_domain(cleared, domain).sec, next_index(idx), probes + 1)

\* a mutation of rehash_from: the entries behind the hole stay where they are
rehash_from_skipped(sec, idx) == sec

rehash_from(sec, idx) == IF MAX_PROC = 0 THEN sec ELSE rehash_loop(sec, idx, 0)

RECURSIVE remove_probe(_, _, _, _)
remove_probe(sec, pid, idx, probes) ==
    IF probes >= MAX_PROC THEN sec
    ELSE IF IsSome(sec.domains[idx]) /\ Unwrap(sec.domains[idx]).pid = pid
    THEN rehash_from([sec EXCEPT !.domains[idx] = None,
                                 !.population = SatDec(sec.population)],
                     next_index(idx))
    ELSE IF IsSome(sec.domains[idx])
    THEN remove_probe(sec, pid, next_index(idx), probes + 1)
    ELSE sec

remove(sec, pid) ==
    IF MAX_PROC = 0 \/ sec.population = 0 THEN sec
    ELSE remove_probe(sec, pid, hash(pid), 0)

register_task(sec, pid, creds) == insert_domain(sec, TaskDomain_from_credentials(pid, creds))

\* a mutation of revoke_task: the domain is left in the table
revoke_task_noop(sec, pid) == sec

revoke_task(sec, pid) == remove(sec, pid)

\* a mutation of authorize_ipc: the receiver's clearance is not checked
authorize_ipc_no_receiver_check(sec, sender, receiver, class) ==
    LET s == lookup(sec, sender)
        r == lookup(sec, receiver)
    IN IF ~IsSome(s) \/ ~IsSome(r) THEN "UnknownTask"
       ELSE IF ~allows_ipc(Unwrap(s).capabilities) THEN "CapabilityMissing"
       ELSE IF ~can_transmit(Unwrap(s), class) THEN "PolicyViolation"
       ELSE IF Unwrap(s).isolation = "VirtualMachine" /\ Unwrap(r).isolation = "None"
       THEN "PolicyViolation"
       ELSE "Ok"

authorize_ipc(sec, sender, receiver, class) ==
    LET s == lookup(sec, sender)
        r == lookup(sec, receiver)
    IN IF ~IsSome(s) THEN "UnknownTask"
       ELSE IF ~IsSome(r) THEN "UnknownTask"
       ELSE IF ~allows_ipc(Unwrap(s).capabilities) THEN "CapabilityMissing"
       ELSE IF ~can_transmit(Unwrap(s), class) \/ ~can_receive(Unwrap(r), class)
       THEN "PolicyViolation"
       ELSE IF Unwrap(s).isolation = "VirtualMachine" /\ Unwrap(r).isolation = "None"
       THEN "PolicyViolation"
       ELSE "Ok"

\* the hook the isolation-fault scenario uses to give a registered task a
\* quarantine counter; the source has no writer of quarantine_events
set_quarantine_events(sec, pid, events) ==
    [sec EXCEPT !.domains = [i \in ProcSlots |->
        IF IsSome(sec.domains[i]) /\ Unwrap(sec.domains[i]).pid = pid
        THEN Some([Unwrap(sec.domains[i]) EXCEPT !.quarantine_events = events])
        ELSE sec.domains[i]]]

enforce_isolation(sec, pid) ==
    LET d == lookup(sec, pid)
    IN IF ~IsSome(d) THEN "UnknownTask"
       ELSE IF Unwrap(d).isolation = "VirtualMachine" /\ Unwrap(d).quarantine_events > 0
       THEN "PolicyViolation"
       ELSE "Ok"

(***************************************************************************)
(* kernel::process, kernel::thread                                         *)
(***************************************************************************)
time_slice(priority) ==
    CASE priority = "Critical" -> 8
      [] priority = "High" -> 6
      [] priority = "Normal" -> 4
      [] priority = "Low" -> 2

\* thread_count and its two methods are used by kernel/mod.rs (lines 426, 428)
\* and are not defined in process.rs; they follow the documented data model.
ProcessControlBlock_new(pid, entry_point, priority, parent) ==
    [ pid |-> pid,
      parent |-> parent,
      state |-> "Ready",
      priority |-> priority,
      entry_point |-> entry_point,
      address_space_root |-> 0,
      cpu_time |-> 0,
      security_label |-> SecurityLabel_public,
      thread_count |-> 0 ]

update_security_label(pcb, label) == [pcb EXCEPT !.security_label = label]

increment_thread_count(pcb) == [pcb EXCEPT !.thread_count = pcb.thread_count + 1]

decrement_thread_count(pcb) == [pcb EXCEPT !.thread_count = SatDec(pcb.thread_count)]

ThreadControlBlock_new(id, process, entry_point, priority) ==
    [ id |-> id,
      process |-> process,
      priority |-> priority,
      state |-> "Ready",
      entry_point |-> entry_point,
      stack_pointer |-> 0,
      cpu_time |-> 0 ]

mark_running(tcb) == [tcb EXCEPT !.state = "Running"]
\* a mutation of mark_ready: the state is left as it was
mark_ready_kept(tcb) == tcb

mark_ready(tcb) == [tcb EXCEPT !.state = "Ready"]
block(tcb) == [tcb EXCEPT !.state = "Blocked"]
\* a mutation of accumulate_cpu_time: the time is not added
accumulate_cpu_time_dropped(tcb, ticks) == tcb

accumulate_cpu_time(tcb, ticks) == [tcb EXCEPT !.cpu_time = tcb.cpu_time + ticks]

(***************************************************************************)
(* kernel::scheduler: the ring of ready threads                            *)
(***************************************************************************)
ThreadSlots == 0 .. (MAX_THREADS - 1)

ScheduledThread_new(thread, process, priority) ==
    [ thread |-> thread,
      process |-> process,
      priority |-> priority,
      remaining_slice |-> time_slice(priority) ]

\* consume_time_slice followed, when it returns true, by reset_time_slice
consume_then_reset(scheduled) ==
    LET left == SatDec(scheduled.remaining_slice)
    IN IF left = 0
       THEN [scheduled EXCEPT !.remaining_slice = time_slice(scheduled.priority)]
       ELSE [scheduled EXCEPT !.remaining_slice = left]

Scheduler_new ==
    [ queue |-> [i \in ThreadSlots |-> None], head |-> 0, tail |-> 0, len |-> 0 ]

Scheduler_reset(s) == Scheduler_new

Scheduler_enqueue(s, thread) ==
    IF s.len = MAX_THREADS THEN [s |-> s, res |-> "QueueFull"]
    ELSE [ s |-> [s EXCEPT !.queue[s.tail] = Some(thread),
                           !.tail = (s.tail + 1) % MAX_THREADS,
                           !.len = s.len + 1],
           res |-> "Ok" ]

Scheduler_requeue(s, thread) == Scheduler_enqueue(s, thread)

RECURSIVE next_scan(_, _)
next_scan(s, steps) ==
    IF steps >= MAX_THREADS
    THEN [s |-> [s EXCEPT !.head = 0, !.tail = 0, !.len = 0], entry |-> None]
    ELSE LET idx == (s.head + steps) % MAX_THREADS
         IN IF IsSome(s.queue[idx])
            THEN [ s |-> [s EXCEPT !.queue[idx] = None,
                                   !.len = s.len - 1,
                                   !.head = (idx + 1) % MAX_THREADS],
                   entry |-> s.queue[idx] ]
            ELSE next_scan(s, steps + 1)

Scheduler_next(s) ==
    IF s.len = 0 THEN [s |-> s, entry |-> None] ELSE next_scan(s, 0)

RECURSIVE remove_thread_loop(_, _, _)
remove_thread_loop(s, thread, idx) ==
    IF idx >= MAX_THREADS THEN s
    ELSE IF IsSome(s.queue[idx]) /\ Unwrap(s.queue[idx]).thread = thread
    THEN remove_thread_loop([s EXCEPT !.queue[idx] = None, !.len = SatDec(s.len)],
                            thread, idx + 1)
    ELSE remove_thread_loop(s, thread, idx + 1)

\* a mutation of remove_thread: nothing is removed
Scheduler_remove_thread_noop(s, thread) == s

Scheduler_remove_thread(s, thread) == remove_thread_loop(s, thread, 0)

RECURSIVE remove_process_loop(_, _, _)
remove_process_loop(s, process, idx) ==
    IF idx >= MAX_THREADS THEN s
    ELSE IF IsSome(s.queue[idx]) /\ Unwrap(s.queue[idx]).process = process
    THEN remove_process_loop([s EXCEPT !.queue[idx] = None, !.len = SatDec(s.len)],
                             process, idx + 1)
    ELSE remove_process_loop(s, process, idx + 1)

\* a mutation of remove_process: the entries stay in the ring
Scheduler_remove_process_noop(s, process) == s

Scheduler_remove_process(s, process) == remove_process_loop(s, process, 0)

(***************************************************************************)
(* kernel::ipc: the per-slot message ring                                  *)
(***************************************************************************)
MsgSlots == 0 .. (MSG_DEPTH - 1)

\* the 64 data bytes of a payload are not modelled: a payload is its class
Message_new(sender, receiver, sequence, payload) ==
    [sender |-> sender, receiver |-> receiver, sequence |-> sequence, payload |-> payload]

MessageQueue_new ==
    [ buffer |-> [i \in MsgSlots |-> None], head |-> 0, tail |-> 0, len |-> 0 ]

\* a mutation of clear: the messages stay in the queue
MessageQueue_clear_kept(q) == q

MessageQueue_clear(q) == MessageQueue_new

\* a mutation of is_full: the queue is taken for full one message too late
is_full_late(q) == q.len > MSG_DEPTH

is_full(q) == q.len = MSG_DEPTH

MessageQueue_push(q, message) ==
    IF is_full(q) THEN [q |-> q, res |-> "Full"]
    ELSE [ q |-> [q EXCEPT !.buffer[q.tail] = Some(message),
                           !.tail = (q.tail + 1) % MSG_DEPTH,
                           !.len = q.len + 1],
           res |-> "Ok" ]

\* a mutation of pop: the newest message is taken instead of the oldest
MessageQueue_pop_newest(q) ==
    IF q.len = 0 THEN [q |-> q, message |-> None]
    ELSE LET last_idx == (q.tail + MSG_DEPTH - 1) % MSG_DEPTH
         IN [ q |-> [q EXCEPT !.buffer[last_idx] = None,
                              !.tail = last_idx,
                              !.len = q.len - 1],
              message |-> q.buffer[last_idx] ]

MessageQueue_pop(q) ==
    IF q.len = 0 THEN [q |-> q, message |-> None]
    ELSE [ q |-> [q EXCEPT !.buffer[q.head] = None,
                           !.head = (q.head + 1) % MSG_DEPTH,
                           !.len = q.len - 1],
           message |-> q.buffer[q.head] ]

(***************************************************************************)
(* kernel::cpu                                                             *)
(***************************************************************************)
Cores == 0 .. (MAX_CORES - 1)

CpuCoreState_new ==
    [online |-> FALSE, current_thread |-> None, local_ticks |-> 0, idle_ticks |-> 0]

online(core) == [core EXCEPT !.online = TRUE]

start_thread(core, thread) ==
    [core EXCEPT !.online = TRUE, !.current_thread = Some(thread)]

finish_cycle(core) ==
    [core EXCEPT !.local_ticks = IF core.online THEN core.local_ticks + 1
                                 ELSE core.local_ticks,
                 !.current_thread = None]

idle_cycle(core) ==
    [core EXCEPT !.idle_ticks = IF core.online THEN core.idle_ticks + 1
                                ELSE core.idle_ticks,
                 !.current_thread = None]

evict(core, thread) ==
    IF core.current_thread = Some(thread)
    THEN [core EXCEPT !.current_thread = None]
    ELSE core

(***************************************************************************)
(* kernel: the facade.  A kernel value k is the struct Kernel.             *)
(***************************************************************************)
DEFAULT_FREQUENCY_HZ == 1000000

Kernel_new ==
    [ process_table |-> [i \in ProcSlots |-> None],
      ipc_queues |-> [i \in ProcSlots |-> MessageQueue_new],
      scheduler |-> Scheduler_new,
      security |-> SecurityKernel_new,
      core_states |-> [c \in Cores |-> CpuCoreState_new],
      thread_table |-> [i \in ThreadSlots |-> None],
      next_pid |-> 1,
      next_thread |-> 1,
      message_sequence |-> 0 ]

MinOf(S) == CHOOSE x \in S : \A y \in S : x <= y

find_free_slot(k) ==
    LET free == {i \in ProcSlots : ~IsSome(k.process_table[i])}
    IN IF free = {} THEN None ELSE Some(MinOf(free))

find_free_thread_slot(k) ==
    LET free == {i \in ThreadSlots : ~IsSome(k.thread_table[i])}
    IN IF free = {} THEN None ELSE Some(MinOf(free))

locate_process(k, pid) ==
    LET hits == {i \in ProcSlots : /\ IsSome(k.process_table[i])
                                   /\ Unwrap(k.process_table[i]).pid = pid}
    IN IF hits = {} THEN None ELSE Some(MinOf(hits))

locate_thread(k, thread) ==
    LET hits == {i \in ThreadSlots : /\ IsSome(k.thread_table[i])
                                     /\ Unwrap(k.thread_table[i]).id = thread}
    IN IF hits = {} THEN None ELSE Some(MinOf(hits))

\* a mutation of update_process_thread_count: the count is never decremented
update_process_thread_count_inc_only(k, pid, increment) ==
    LET at == locate_process(k, pid)
    IN IF IsSome(at) /\ increment
       THEN [k EXCEPT !.process_table[Unwrap(at)] =
                          Some(increment_thread_count(Unwrap(@)))]
       ELSE k

update_process_thread_count(k, pid, increment) ==
    LET at == locate_process(k, pid)
    IN IF ~IsSome(at) THEN k
       ELSE [k EXCEPT !.process_table[Unwrap(at)] =
                          Some(IF increment THEN increment_thread_count(Unwrap(@))
                               ELSE decrement_thread_count(Unwrap(@)))]

\* a mutation of allocate_pid: the counter is not advanced
allocate_pid_stuck(k) == [k |-> k, pid |-> k.next_pid]

\* the next process id; the counter moves on by one
allocate_pid(k) == [k |-> [k EXCEPT !.next_pid = k.next_pid + 1], pid |-> k.next_pid]

\* the next thread id; the counter moves on by one
allocate_thread_id(k) ==
    [k |-> [k EXCEPT !.next_thread = k.next_thread + 1], id |-> k.next_thread]

create_thread(k, pid, entry_point, priority) ==
    LET slot == find_free_thread_slot(k)
    IN IF ~IsSome(slot) THEN [k |-> k, res |-> "ThreadTableFull", id |-> 0]
       ELSE LET alloc == allocate_thread_id(k)
                id == alloc.id
                tcb == ThreadControlBlock_new(id, pid, entry_point, priority)
                k1 == [alloc.k EXCEPT !.thread_table[Unwrap(slot)] = Some(tcb)]
            IN [k |-> update_process_thread_count(k1, pid, TRUE), res |-> "Ok", id |-> id]

\* a mutation of rollback_thread_creation: the TCB is left in the table
rollback_thread_creation_noop(k, thread) == k

rollback_thread_creation(k, thread) ==
    LET at == locate_thread(k, thread)
    IN IF ~IsSome(at) THEN k
       ELSE LET tcb == Unwrap(k.thread_table[Unwrap(at)])
            IN update_process_thread_count(
                   [k EXCEPT !.thread_table[Unwrap(at)] = None], tcb.process, FALSE)

remove_thread_from_cores(k, thread) ==
    [k EXCEPT !.core_states = [c \in Cores |-> evict(k.core_states[c], thread)]]

RECURSIVE remove_threads_loop(_, _, _)
remove_threads_loop(k, pid, idx) ==
    IF idx >= MAX_THREADS THEN k
    ELSE IF IsSome(k.thread_table[idx]) /\ Unwrap(k.thread_table[idx]).process = pid
    THEN LET thread == Unwrap(k.thread_table[idx])
             k1 == [k EXCEPT !.scheduler = Scheduler_remove_thread(@, thread.id)]
             k2 == remove_thread_from_cores(k1, thread.id)
         IN remove_threads_loop([k2 EXCEPT !.thread_table[idx] = None], pid, idx + 1)
    ELSE remove_threads_loop(k, pid, idx + 1)

\* a mutation of remove_threads_for_process: the thread table is left alone
remove_threads_for_process_noop(k, pid) == k

remove_threads_for_process(k, pid) == remove_threads_loop(k, pid, 0)

block_threads_for_process(k, pid) ==
    [k EXCEPT !.thread_table =
        [i \in ThreadSlots |->
            IF IsSome(k.thread_table[i]) /\ Unwrap(k.thread_table[i]).process = pid
            THEN Some(block(Unwrap(k.thread_table[i])))
            ELSE k.thread_table[i]]]

RECURSIVE make_threads_ready_loop(_, _, _)
make_threads_ready_loop(k, pid, idx) ==
    IF idx >= MAX_THREADS THEN k
    ELSE IF /\ IsSome(k.thread_table[idx])
            /\ Unwrap(k.thread_table[idx]).process = pid
            /\ Unwrap(k.thread_table[idx]).state = "Blocked"
    THEN LET thread == mark_ready(Unwrap(k.thread_table[idx]))
             enq == Scheduler_enqueue(k.scheduler,
                        ScheduledThread_new(thread.id, thread.process, thread.priority))
         IN make_threads_ready_loop(
                [k EXCEPT !.thread_table[idx] = Some(thread), !.scheduler = enq.s],
                pid, idx + 1)
    ELSE make_threads_ready_loop(k, pid, idx + 1)

make_threads_ready(k, pid) == make_threads_ready_loop(k, pid, 0)

Kernel_bootstrap(k) ==
    [ process_table |-> [i \in ProcSlots |-> None],
      ipc_queues |-> [i \in ProcSlots |-> MessageQueue_clear(k.ipc_queues[i])],
      scheduler |-> Scheduler_reset(k.scheduler),
      security |-> SecurityKernel_reset(k.security),
      core_states |-> [c \in Cores |-> IF c = 0 THEN online(CpuCoreState_new)
                                       ELSE CpuCoreState_new],
      thread_table |-> [i \in ThreadSlots |-> None],
      next_pid |-> 1,
      next_thread |-> 1,
      message_sequence |-> 0 ]

\* cores 1 .. min(count, MAX_CORES - 1) are switched on
bring_up_secondary_cores(k, count) ==
    [k EXCEPT !.core_states =
        [c \in Cores |-> IF c >= 1 /\ c <= count THEN online(k.core_states[c])
                         ELSE k.core_states[c]]]

online_core_count(k) == Cardinality({c \in Cores : k.core_states[c].online})

\* a mutation of terminate_process: the message queue is not cleared
Kernel_terminate_process_keep_queue(k, pid) ==
    LET at == locate_process(k, pid)
    IN IF ~IsSome(at) THEN k
       ELSE LET index == Unwrap(at)
                k1 == [k EXCEPT !.process_table[index] = None]
                k2 == [k1 EXCEPT !.scheduler = Scheduler_remove_process(@, pid)]
                k3 == remove_threads_for_process(k2, pid)
            IN [k3 EXCEPT !.security = revoke_task(@, pid)]

Kernel_terminate_process(k, pid) ==
    LET at == locate_process(k, pid)
    IN IF ~IsSome(at) THEN k
       ELSE LET index == Unwrap(at)
                k1 == [k EXCEPT !.process_table[index] = None,
                                !.ipc_queues[index] = MessageQueue_clear(@)]
                k2 == [k1 EXCEPT !.scheduler = Scheduler_remove_process(@, pid)]
                k3 == remove_threads_for_process(k2, pid)
            IN [k3 EXCEPT !.security = revoke_task(@, pid)]

Kernel_spawn_process(k, entry_point, priority, parent, creds) ==
    LET free == find_free_slot(k)
    IN IF ~IsSome(free) THEN [k |-> k, res |-> "ProcessTableFull", pid |-> 0]
       ELSE
       LET slot == Unwrap(free)
           alloc == allocate_pid(k)
           pid == alloc.pid
           pcb == update_security_label(
                      ProcessControlBlock_new(pid, entry_point, priority, parent),
                      creds.label)
           reg == register_task(k.security, pid, creds)
           k1 == [alloc.k EXCEPT !.security = reg.sec]
       IN IF reg.res /= "Ok" THEN [k |-> k1, res |-> "SecurityViolation", pid |-> 0]
          ELSE
          LET k2 == [k1 EXCEPT !.process_table[slot] = Some(pcb)]
              ct == create_thread(k2, pid, entry_point, priority)
          IN IF ct.res /= "Ok"
             THEN [ k |-> [ct.k EXCEPT !.process_table[slot] = None,
                                       !.security = revoke_task(@, pid)],
                    res |-> ct.res, pid |-> 0 ]
             ELSE
             LET k3 == [ct.k EXCEPT !.process_table[slot] =
                            Some([Unwrap(@) EXCEPT !.state = "Ready"])]
                 enq == Scheduler_enqueue(k3.scheduler,
                            ScheduledThread_new(ct.id, pid, priority))
             IN IF enq.res /= "Ok"
                THEN [ k |-> [rollback_thread_creation(k3, ct.id)
                                 EXCEPT !.process_table[slot] = None,
                                        !.security = revoke_task(@, pid)],
                       res |-> "SchedulerFull", pid |-> 0 ]
                ELSE [k |-> [k3 EXCEPT !.scheduler = enq.s], res |-> "Ok", pid |-> pid]

Kernel_spawn_thread(k, pid, entry_point, priority) ==
    IF ~IsSome(locate_process(k, pid)) THEN [k |-> k, res |-> "UnknownProcess", id |-> 0]
    ELSE LET ct == create_thread(k, pid, entry_point, priority)
         IN IF ct.res /= "Ok" THEN [k |-> ct.k, res |-> ct.res, id |-> 0]
            ELSE LET enq == Scheduler_enqueue(ct.k.scheduler,
                                ScheduledThread_new(ct.id, pid, priority))
                 IN IF enq.res /= "Ok"
                    THEN [ k |-> rollback_thread_creation(ct.k, ct.id),
                           res |-> "SchedulerFull", id |-> 0 ]
                    ELSE [k |-> [ct.k EXCEPT !.scheduler = enq.s], res |-> "Ok", id |-> ct.id]

\* a mutation of terminate_thread: the TCB stays in the thread table
Kernel_terminate_thread_keep_tcb(k, thread) ==
    LET at == locate_thread(k, thread)
    IN IF ~IsSome(at) THEN k
       ELSE LET index == Unwrap(at)
                tcb == Unwrap(k.thread_table[index])
                k1 == [k EXCEPT !.scheduler = Scheduler_remove_thread(@, thread)]
                k2 == remove_thread_from_cores(k1, thread)
            IN update_process_thread_count(k2, tcb.process, FALSE)

Kernel_terminate_thread(k, thread) ==
    LET at == locate_thread(k, thread)
    IN IF ~IsSome(at) THEN k
       ELSE LET index == Unwrap(at)
                tcb == Unwrap(k.thread_table[index])
                k1 == [k EXCEPT !.scheduler = Scheduler_remove_thread(@, thread)]
                k2 == remove_thread_from_cores(k1, thread)
                k3 == [k2 EXCEPT !.thread_table[index] = None]
            IN update_process_thread_count(k3, tcb.process, FALSE)

\* a mutation of next_message_sequence: the counter is read but not advanced
next_message_sequence_stuck(k) == [k |-> k, sequence |-> k.message_sequence]

\* returns the counter and advances it: u64::wrapping_add(1); the counter
\* stays far below 2^64 here
next_message_sequence(k) ==
    [ k |-> [k EXCEPT !.message_sequence = k.message_sequence + 1],
      sequence |-> k.message_sequence ]

Kernel_send_message(k, sender, receiver, payload) ==
    IF authorize_ipc(k.security, sender, receiver, payload.security_class) /= "Ok"
    THEN [k |-> k, res |-> "SecurityViolation"]
    ELSE
    LET message == Message_new(sender, receiver, next_message_sequence(k).sequence, payload)
        k1 == next_message_sequence(k).k
        at == locate_process(k1, receiver)
    IN IF ~IsSome(at) THEN [k |-> k1, res |-> "UnknownProcess"]
       ELSE
       LET queue_index == Unwrap(at)
           pushed == MessageQueue_push(k1.ipc_queues[queue_index], message)
       IN IF pushed.res /= "Ok" THEN [k |-> k1, res |-> "MessageQueueFull"]
          ELSE
          LET k2 == [k1 EXCEPT !.ipc_queues[queue_index] = pushed.q]
              wake_threads == Unwrap(k2.process_table[queue_index]).state = "Blocked"
              k3 == IF wake_threads
                    THEN [k2 EXCEPT !.process_table[queue_index] =
                              Some([Unwrap(@) EXCEPT !.state = "Ready"])]
                    ELSE k2
          IN [ k |-> IF wake_threads THEN make_threads_ready(k3, receiver) ELSE k3,
               res |-> "Ok" ]

Kernel_receive_message(k, pid) ==
    LET at == locate_process(k, pid)
    IN IF ~IsSome(at) THEN [k |-> k, res |-> "UnknownProcess", message |-> None]
       ELSE LET popped == MessageQueue_pop(k.ipc_queues[Unwrap(at)])
            IN IF ~IsSome(popped.message)
               THEN [k |-> k, res |-> "MessageQueueEmpty", message |-> None]
               ELSE [ k |-> [k EXCEPT !.ipc_queues[Unwrap(at)] = popped.q],
                      res |-> "Ok", message |-> popped.message ]

Kernel_block_for_message(k, pid) ==
    LET at == locate_process(k, pid)
    IN IF ~IsSome(at) THEN k
       ELSE LET k1 == [k EXCEPT !.process_table[Unwrap(at)] =
                           Some([Unwrap(@) EXCEPT !.state = "Blocked"])]
                k2 == [k1 EXCEPT !.scheduler = Scheduler_remove_process(@, pid)]
            IN block_threads_for_process(k2, pid)

\* a mutation of handle_isolation_fault: the fault is swallowed
handle_isolation_fault_ignored(k, pid) == k

handle_isolation_fault(k, pid) == Kernel_terminate_process(k, pid)

\* one core's cycle; `ran` is the thread it ran (Some) or None
run_core(k, core_index) ==
    LET nx == Scheduler_next(k.scheduler)
        k1 == [k EXCEPT !.scheduler = nx.s]
        idle(kk) == [kk EXCEPT !.core_states[core_index] = idle_cycle(@)]
    IN IF ~IsSome(nx.entry) THEN [k |-> idle(k1), ran |-> None]
       ELSE
       LET scheduled == Unwrap(nx.entry)
           tat == locate_thread(k1, scheduled.thread)
           pat == locate_process(k1, scheduled.process)
       IN IF ~IsSome(tat) THEN [k |-> idle(k1), ran |-> None]
          ELSE IF ~IsSome(pat)
          THEN [ k |-> idle([k1 EXCEPT !.thread_table[Unwrap(tat)] = None]),
                 ran |-> None ]
          ELSE IF enforce_isolation(k1.security, scheduled.process) /= "Ok"
          THEN [k |-> handle_isolation_fault(k1, scheduled.process), ran |-> None]
          ELSE
          LET thread_index == Unwrap(tat)
              process_index == Unwrap(pat)
              k2 == [k1 EXCEPT !.core_states[core_index] =
                         start_thread(@, scheduled.thread)]
              thread == Unwrap(k2.thread_table[thread_index])
          IN IF thread.state = "Terminated"
             THEN LET k3 == [k2 EXCEPT !.thread_table[thread_index] = None]
                      k4 == update_process_thread_count(k3, scheduled.process, FALSE)
                  IN [ k |-> [k4 EXCEPT !.core_states[core_index] = finish_cycle(@)],
                       ran |-> None ]
             ELSE
             LET ran_thread == mark_ready(accumulate_cpu_time(mark_running(thread), 1))
                 pcb == Unwrap(k2.process_table[process_index])
                 ran_pcb == [pcb EXCEPT !.cpu_time = pcb.cpu_time + 1, !.state = "Ready"]
                 k3 == [k2 EXCEPT !.thread_table[thread_index] = Some(ran_thread),
                                  !.process_table[process_index] = Some(ran_pcb),
                                  !.core_states[core_index] = finish_cycle(@)]
                 again == Scheduler_requeue(k3.scheduler, consume_then_reset(scheduled))
             IN [k |-> [k3 EXCEPT !.scheduler = again.s], ran |-> Some(scheduled.thread)]

\* the loop of tick over the cores from core_index on; `ran` collects what ran
RECURSIVE tick_cores(_, _, _)
tick_cores(k, core_index, ran) ==
    IF core_index >= MAX_CORES THEN [k |-> k, ran |-> ran]
    ELSE IF k.core_states[core_index].online
    THEN LET r == run_core(k, core_index)
         IN tick_cores(r.k, core_index + 1, ran \o r.ran)
    ELSE tick_cores(k, core_index + 1, ran)

Kernel_tick(k) == tick_cores(k, 0, <<>>)

(***************************************************************************)
(* kernel::memory: MemoryManager.  A manager value m holds the bytes of   *)
(* the heap, bump_offset, the allocation records, the free regions and the *)
(* statistics.  A pointer into the heap is its offset from the heap's      *)
(* base.                                                                   *)
(***************************************************************************)
PAGE_SIZE == 2 ^ PageBits
USIZE_MODULUS == 2 ^ UsizeBits
\* core::mem::size_of::<usize>()
WORD == 8

AreaSlots == 0 .. (MAX_AREAS - 1)

MemoryProtection_new(read, write, execute) ==
    [read |-> read, write |-> write, execute |-> execute]
MemoryProtection_read_only == MemoryProtection_new(TRUE, FALSE, FALSE)
MemoryProtection_read_write == MemoryProtection_new(TRUE, TRUE, FALSE)

AllocationRecord_new(offset, size, kind, protection) ==
    [offset |-> offset, size |-> size, kind |-> kind, protection |-> protection]

FreeRegion_new(offset, size) == [offset |-> offset, size |-> size]
FreeRegion_end(region) == region.offset + region.size

\* heap: [0; HEAP_SIZE] and the bookkeeping
MemoryManager_new ==
    [ heap |-> [o \in 0 .. (HEAP_SIZE - 1) |-> 0],
      bump_offset |-> 0,
      allocations |-> [i \in AreaSlots |-> None],
      free_regions |-> [i \in AreaSlots |-> None],
      allocated_bytes |-> 0,
      peak_bytes |-> 0 ]

RECURSIVE BitAnd(_, _)
BitAnd(a, b) ==
    IF a = 0 \/ b = 0 THEN 0
    ELSE ((a % 2) * (b % 2)) + 2 * BitAnd(a \div 2, b \div 2)

\* usize::checked_add
checked_add(a, b) == IF a + b >= USIZE_MODULUS THEN None ELSE Some(a + b)

\* (value + (align - 1)) & !(align - 1).  The `+` is unchecked: `overflow`
\* marks a sum past the width of usize, where a build with overflow checks
\* panics and a build without them goes on with the wrapped sum, which
\* `value` is made from
align_up(value, align) ==
    IF align = 0 THEN [value |-> value, overflow |-> FALSE]
    ELSE LET sum == (value + (align - 1)) % USIZE_MODULUS
         IN [ value |-> sum - BitAnd(sum, align - 1),
              overflow |-> value + (align - 1) >= USIZE_MODULUS ]

\* a result of the allocator, marked when an align_up on the way to it
\* overflowed
or_overflow(r, flag) == [r EXCEPT !.overflow = @ \/ flag]

\* the merge loop of insert_free_region from slot idx on
RECURSIVE merge_free_regions(_, _, _)
merge_free_regions(free, merged, idx) ==
    IF idx >= MAX_AREAS THEN [free |-> free, merged |-> merged]
    ELSE IF ~IsSome(free[idx]) THEN merge_free_regions(free, merged, idx + 1)
    ELSE LET existing == Unwrap(free[idx])
         IN IF FreeRegion_end(existing) = merged.offset
            THEN merge_free_regions([free EXCEPT ![idx] = None],
                     FreeRegion_new(existing.offset, existing.size + merged.size), idx + 1)
            ELSE IF FreeRegion_end(merged) = existing.offset
            THEN merge_free_regions([free EXCEPT ![idx] = None],
                     FreeRegion_new(merged.offset, merged.size + existing.size), idx + 1)
            ELSE merge_free_regions(free, merged, idx + 1)

\* the first empty slot of an array of options, if any
first_empty(slots) ==
    LET empty == {i \in AreaSlots : ~IsSome(slots[i])}
    IN IF empty = {} THEN None
       ELSE Some(CHOOSE i \in empty : \A j \in empty : i <= j)

\* a mutation of insert_free_region: the region is stored without merging
insert_free_region_unmerged(m, region) ==
    IF region.size = 0 THEN m
    ELSE LET slot == first_empty(m.free_regions)
         IN IF IsSome(slot)
            THEN [m EXCEPT !.free_regions[Unwrap(slot)] = Some(region)]
            ELSE m

\* merge with the neighbours, then store in the first empty slot; with no
\* empty slot the region is dropped
insert_free_region(m, region) ==
    IF region.size = 0 THEN m
    ELSE LET r == merge_free_regions(m.free_regions, region, 0)
             slot == first_empty(r.free)
         IN IF IsSome(slot)
            THEN [m EXCEPT !.free_regions = [r.free EXCEPT ![Unwrap(slot)] = Some(r.merged)]]
            ELSE [m EXCEPT !.free_regions = r.free]

\* the loop of reserve_from_free_list from slot idx on
RECURSIVE reserve_from_free_loop(_, _, _, _)
reserve_from_free_loop(m, size, align, idx) ==
    IF idx >= MAX_AREAS THEN [m |-> m, offset |-> None, overflow |-> FALSE]
    ELSE IF ~IsSome(m.free_regions[idx])
    THEN reserve_from_free_loop(m, size, align, idx + 1)
    ELSE LET region == Unwrap(m.free_regions[idx])
             aligned_start == align_up(region.offset, align).value
             overflow == align_up(region.offset, align).overflow
             end == checked_add(aligned_start, size)
         IN IF ~IsSome(end) THEN [m |-> m, offset |-> None, overflow |-> overflow]
            ELSE IF Unwrap(end) <= FreeRegion_end(region)
            THEN LET m1 == [m EXCEPT !.free_regions[idx] = None]
                     m2 == IF aligned_start > region.offset
                           THEN insert_free_region(m1,
                                    FreeRegion_new(region.offset, aligned_start - region.offset))
                           ELSE m1
                     m3 == IF Unwrap(end) < FreeRegion_end(region)
                           THEN insert_free_region(m2,
                                    FreeRegion_new(Unwrap(end), FreeRegion_end(region) - Unwrap(end)))
                           ELSE m2
                 IN [m |-> m3, offset |-> Some(aligned_start), overflow |-> overflow]
            ELSE or_overflow(reserve_from_free_loop(m, size, align, idx + 1), overflow)

reserve_from_free_list(m, size, align) == reserve_from_free_loop(m, size, align, 0)

\* the second half of reserve: the bytes come from the bump region
reserve_from_bump(m, size, align) ==
    LET aligned_offset == align_up(m.bump_offset, align).value
        overflow == align_up(m.bump_offset, align).overflow
        end == checked_add(aligned_offset, size)
    IN IF ~IsSome(end) \/ Unwrap(end) > HEAP_SIZE
       THEN [m |-> m, offset |-> None, overflow |-> overflow]
       ELSE [ m |-> [m EXCEPT !.bump_offset = Unwrap(end)],
              offset |-> Some(aligned_offset), overflow |-> overflow ]

\* reserve, given what the search of the free list returned
reserve_after_search(m, size, align, listed) ==
    IF IsSome(listed.offset) THEN listed
    ELSE or_overflow(reserve_from_bump(m, size, align), listed.overflow)

reserve(m, size, align) ==
    reserve_after_search(m, size, align, reserve_from_free_list(m, size, align))

record_allocation(m, record) ==
    LET slot == first_empty(m.allocations)
    IN IF IsSome(slot)
       THEN [m |-> [m EXCEPT !.allocations[Unwrap(slot)] = Some(record)], ok |-> TRUE]
       ELSE [m |-> m, ok |-> FALSE]

\* the sums stay far below the width of usize: saturating_add never saturates
update_stats_on_alloc(m, size) ==
    LET total == m.allocated_bytes + size
    IN [m EXCEPT !.allocated_bytes = total,
                 !.peak_bytes = IF total > m.peak_bytes THEN total ELSE m.peak_bytes]

update_stats_on_free_kept(m, size) == m

\* saturating_sub
update_stats_on_free(m, size) ==
    [m EXCEPT !.allocated_bytes = IF m.allocated_bytes > size
                                  THEN m.allocated_bytes - size ELSE 0]

\* the end of an allocation, given what record_allocation returned:
\* `record_allocation(record)?`, update_stats_on_alloc, Some(pointer)
allocate_recorded(rec, actual_size, offset) ==
    IF ~rec.ok THEN [m |-> rec.m, ptr |-> None, overflow |-> FALSE]
    ELSE [ m |-> update_stats_on_alloc(rec.m, actual_size), ptr |-> Some(offset),
           overflow |-> FALSE ]

\* the rest of an allocation, given what reserve returned: `reserve(..)?`,
\* then the record
allocate_reserved(r, actual_size, kind, protection) ==
    IF ~IsSome(r.offset) THEN [m |-> r.m, ptr |-> None, overflow |-> r.overflow]
    ELSE or_overflow(
             allocate_recorded(
                 record_allocation(r.m,
                     AllocationRecord_new(Unwrap(r.offset), actual_size, kind, protection)),
                 actual_size, Unwrap(r.offset)),
             r.overflow)

\* reserve, record and count an allocation of actual_size bytes
allocate(m, actual_size, align, kind, protection) ==
    allocate_reserved(reserve(m, actual_size, align), actual_size, kind, protection)

MemoryManager_malloc(m, size) ==
    IF size = 0 THEN [m |-> m, ptr |-> None, overflow |-> FALSE]
    ELSE or_overflow(
             allocate(m, align_up(size, WORD).value, WORD, "Heap",
                      MemoryProtection_read_write),
             align_up(size, WORD).overflow)

MemoryManager_malloc_aligned(m, size, align) ==
    IF size = 0 \/ align = 0 THEN [m |-> m, ptr |-> None, overflow |-> FALSE]
    ELSE LET actual_align == IF align > WORD THEN align ELSE WORD
             actual_size == align_up(size, WORD).value
             overflow == align_up(size, WORD).overflow
         IN IF actual_size < size THEN [m |-> m, ptr |-> None, overflow |-> overflow]
            ELSE or_overflow(
                     allocate(m, actual_size, actual_align, "Heap",
                              MemoryProtection_read_write),
                     overflow)

find_allocation_index(m, offset) ==
    LET found == {i \in AreaSlots : IsSome(m.allocations[i])
                                    /\ Unwrap(m.allocations[i]).offset = offset}
    IN IF found = {} THEN None
       ELSE Some(CHOOSE i \in found : \A j \in found : i <= j)

\* the record at the first slot with this offset is taken out, unless its
\* kind or its size does not fit
remove_allocation(m, offset, expected_kind, minimum_length) ==
    LET at == find_allocation_index(m, offset)
    IN IF ~IsSome(at) THEN [m |-> m, record |-> None]
       ELSE LET record == Unwrap(m.allocations[Unwrap(at)])
            IN IF IsSome(expected_kind) /\ record.kind /= Unwrap(expected_kind)
               THEN [m |-> m, record |-> None]
               ELSE IF IsSome(minimum_length) /\ record.size < Unwrap(minimum_length)
               THEN [m |-> m, record |-> None]
               ELSE [m |-> [m EXCEPT !.allocations[Unwrap(at)] = None], record |-> Some(record)]

release(m, ptr, expected_kind, minimum_length) ==
    IF ptr < 0 \/ ptr >= HEAP_SIZE THEN [m |-> m, ok |-> FALSE]
    ELSE LET r == remove_allocation(m, ptr, expected_kind, minimum_length)
         IN IF IsSome(r.record)
            THEN [ m |-> update_stats_on_free(
                             insert_free_region(r.m,
                                 FreeRegion_new(Unwrap(r.record).offset, Unwrap(r.record).size)),
                             Unwrap(r.record).size),
                   ok |-> TRUE ]
            ELSE [m |-> m, ok |-> FALSE]

MemoryManager_free(m, ptr) == release(m, ptr, Some("Heap"), None)

\* ptr::copy_nonoverlapping on two ranges of the heap array
copy_nonoverlapping(heap, src, dst, count) ==
    [o \in DOMAIN heap |->
        IF o >= dst /\ o < dst + count THEN heap[src + (o - dst)] ELSE heap[o]]

\* the end of a growing realloc, given what malloc returned: `malloc(size)?`,
\* the copy, free(p)
realloc_moved(fresh, offset, copy_len) ==
    IF ~IsSome(fresh.ptr) THEN fresh
    ELSE [m |-> MemoryManager_free(
                    [fresh.m EXCEPT !.heap = copy_nonoverlapping(fresh.m.heap, offset,
                                                 Unwrap(fresh.ptr), copy_len)],
                    offset).m,
          ptr |-> fresh.ptr,
          overflow |-> fresh.overflow]

MemoryManager_realloc(m, ptr, new_size) ==
    IF ~IsSome(ptr) /\ new_size = 0 THEN [m |-> m, ptr |-> None, overflow |-> FALSE]
    ELSE IF ~IsSome(ptr) THEN MemoryManager_malloc(m, new_size)
    ELSE IF new_size = 0
    THEN [m |-> MemoryManager_free(m, Unwrap(ptr)).m, ptr |-> None, overflow |-> FALSE]
    ELSE
    LET offset == Unwrap(ptr)
        at == find_allocation_index(m, offset)
    IN IF offset < 0 \/ offset >= HEAP_SIZE \/ ~IsSome(at)
       THEN [m |-> m, ptr |-> None, overflow |-> FALSE]
       ELSE
       LET idx == Unwrap(at)
           record == Unwrap(m.allocations[idx])
           aligned_new == align_up(new_size, WORD).value
           overflow == align_up(new_size, WORD).overflow
       IN IF record.kind /= "Heap" THEN [m |-> m, ptr |-> None, overflow |-> FALSE]
          ELSE IF aligned_new < new_size THEN [m |-> m, ptr |-> None, overflow |-> overflow]
          ELSE IF aligned_new <= record.size
          THEN LET leftover == record.size - aligned_new
                   m1 == IF leftover > 0
                         THEN update_stats_on_free(
                                  insert_free_region(m,
                                      FreeRegion_new(record.offset + aligned_new, leftover)),
                                  leftover)
                         ELSE m
               IN [ m |-> [m1 EXCEPT !.allocations[idx] =
                               Some([record EXCEPT !.size = aligned_new])],
                    ptr |-> ptr, overflow |-> overflow ]
          ELSE or_overflow(
                   realloc_moved(MemoryManager_malloc(m, new_size), offset,
                                 IF record.size < new_size THEN record.size ELSE new_size),
                   overflow)

\* the MappedRegion is the pointer and the length (its other fields repeat
\* the arguments)
MappedRegion_of(r, actual_size) ==
    IF ~IsSome(r.ptr) THEN [m |-> r.m, region |-> None, overflow |-> r.overflow]
    ELSE [ m |-> r.m, region |-> Some([ptr |-> Unwrap(r.ptr), length |-> actual_size]),
           overflow |-> r.overflow ]

MemoryManager_mmap(m, length, protection) ==
    IF length = 0 THEN [m |-> m, region |-> None, overflow |-> FALSE]
    ELSE or_overflow(
             MappedRegion_of(
                 allocate(m, align_up(length, PAGE_SIZE).value, PAGE_SIZE, "Mapping",
                          protection),
                 align_up(length, PAGE_SIZE).value),
             align_up(length, PAGE_SIZE).overflow)

MemoryManager_munmap(m, region) ==
    release(m, region.ptr, Some("Mapping"), Some(region.length))

(***************************************************************************)
(* State.  kernel is one Kernel instance; hw_clock is the static           *)
(* HARDWARE_CLOCK (KERNEL_TIME.last_tick always equals its counter).       *)
(* ring is a Scheduler driven directly through its own interface.  The     *)
(* remaining variables only observe: done is the latest facade call that   *)
(* changed the kernel, with its result (a call that changes nothing leaves *)
(* it as it is); inflight holds the messages sent to each pid and not yet  *)
(* received; obs the ring order at the latest call other than tick and     *)
(* what the ticks since then ran; ring_obs numbers the enqueue and requeue *)
(* calls on ring (count), keeps for each thread the number of the call     *)
(* that queued it last (stamp), the stamps of the entries next() returned  *)
(* (returned) and the entry the caller took last and may requeue (held).   *)
(***************************************************************************)
(* The clock's concurrent callers are observed through clock_obs: the      *)
(* value each caller's last now() returned (seen) and the last call made   *)
(* (ret).  The SpinLock shared by threads is spin: its flag, the data it   *)
(* protects, and for each thread where it is in its program (pc) and the   *)
(* copy of the data it works on (local).  memory is the MemoryManager      *)
(* behind MEMORY_MANAGER and mem_done its latest call with the result.     *)
(***************************************************************************)
VARIABLES kernel, hw_clock, done, inflight, obs, issued, ring, ring_obs,
          clock_obs, spin, memory, mem_done, table, table_obs

kernel_vars == <<kernel, hw_clock, done, inflight, obs, issued>>
ring_vars == <<ring, ring_obs>>
clock_vars == <<clock_obs>>
lock_vars == <<spin>>
mem_vars == <<memory, mem_done>>
table_vars == <<table, table_obs>>
vars == <<kernel, hw_clock, done, inflight, obs, issued, ring, ring_obs, clock_obs, spin,
          memory, mem_done, table, table_obs>>

\* every pid some specification can hand out
AllPids == 1 .. (MaxPid + IpcMaxPid + AuthMaxPid + FaultMaxPid)

\* inputs of spawn and send
Priorities == {"Low"}
Credentials_public_nocap ==
    Credentials_new(SecurityLabel_public, CapabilitySet_none, "None")
Credentials_vm ==
    Credentials_new(SecurityLabel_confidential, CapabilitySet_ipc, "VirtualMachine")
CredsPool == {Credentials_system}
AuthCredsPool == {Credentials_system, Credentials_user, Credentials_public_nocap, Credentials_vm}
Classes == {"Public"}
MessagePayload_empty(class) == [security_class |-> class]

HardwareClock_new ==
    [counter |-> 0, frequency_hz |-> DEFAULT_FREQUENCY_HZ, calibrated |-> FALSE]

\* KernelTime::init: set_frequency (at least 1), reset, mark_calibrated
KernelTime_init(clock, frequency_hz) ==
    [ counter |-> 0,
      frequency_hz |-> IF frequency_hz < 1 THEN 1 ELSE frequency_hz,
      calibrated |-> TRUE ]

\* the number of values of the AtomicU64 counter; fetch_add wraps around it
U64_MODULUS == 2 ^ ClockBits

\* counter.fetch_add(1): the clock after tick()
HardwareClock_tick(clock) ==
    [clock EXCEPT !.counter = (clock.counter + 1) % U64_MODULUS]

\* the value tick() returns, fetch_add(1) + 1; `overflow` marks the sum that
\* is past the counter's width (a panic with overflow checks, wrapped without)
HardwareClock_tick_value(clock) ==
    [ value |-> (clock.counter + 1) % U64_MODULUS,
      overflow |-> clock.counter + 1 >= U64_MODULUS ]

\* advance(ticks): a load when ticks = 0, else fetch_add(ticks) + ticks
HardwareClock_advance(clock, ticks) ==
    IF ticks = 0
    THEN [clock |-> clock, value |-> clock.counter, overflow |-> FALSE]
    ELSE [ clock |-> [clock EXCEPT !.counter = (clock.counter + ticks) % U64_MODULUS],
           value |-> (clock.counter + ticks) % U64_MODULUS,
           overflow |-> clock.counter + ticks >= U64_MODULUS ]

HardwareClock_now(clock) == clock.counter

(***************************************************************************)
(* kernel::sync: SpinLock<T>.  A lock value is the flag and the data; a    *)
(* guard is held by the thread whose compare_exchange succeeded.           *)
(***************************************************************************)
SpinLock_new(value) == [flag |-> FALSE, data |-> value]

\* a mutation of compare_exchange: the flag is stored without being compared
compare_exchange_blind(flag, current, new) == [flag |-> new, ok |-> TRUE]

\* AtomicBool::compare_exchange(current, new, ..)
compare_exchange(flag, current, new) ==
    IF flag = current THEN [flag |-> new, ok |-> TRUE]
    ELSE [flag |-> flag, ok |-> FALSE]

\* try_lock(): guard is TRUE for Some(guard), FALSE for None
SpinLock_try_lock(lock) ==
    LET cas == compare_exchange(lock.flag, FALSE, TRUE)
    IN [lock |-> [lock EXCEPT !.flag = cas.flag], guard |-> cas.ok]

\* one turn of the loop of lock(): the guard is returned if the exchange
\* succeeded, else the caller relaxes and tries again
SpinLock_lock_turn(lock) ==
    LET cas == compare_exchange(lock.flag, FALSE, TRUE)
    IN [lock |-> [lock EXCEPT !.flag = cas.flag], guard |-> cas.ok]

\* unlock(), called by the guard's drop
SpinLock_unlock(lock) == [lock EXCEPT !.flag = FALSE]

\* the thread ids of the ring's entries, in the order next() would find them
ThreadOrder(s) ==
    LET at(i) == (s.head + i - 1) % MAX_THREADS
        RECURSIVE walk(_)
        walk(i) == IF i > MAX_THREADS THEN <<>>
                   ELSE IF IsSome(s.queue[at(i)])
                   THEN <<Unwrap(s.queue[at(i)]).thread>> \o walk(i + 1)
                   ELSE walk(i + 1)
    IN walk(1)

\* the queued messages of a queue, oldest first
QueueContents(q) ==
    [i \in 1 .. q.len |-> Unwrap(q.buffer[(q.head + i - 1) % MSG_DEPTH])]

LivePcbs(k) ==
    {Unwrap(k.process_table[i]) : i \in {j \in ProcSlots : IsSome(k.process_table[j])}}
LivePids(k) == {pcb.pid : pcb \in LivePcbs(k)}
LiveTcbs(k) ==
    {Unwrap(k.thread_table[i]) : i \in {j \in ThreadSlots : IsSome(k.thread_table[j])}}
RingEntries(s) == {Unwrap(s.queue[i]) : i \in {j \in ThreadSlots : IsSome(s.queue[j])}}
Domains(sec) ==
    {Unwrap(sec.domains[i]) : i \in {j \in ProcSlots : IsSome(sec.domains[j])}}
PcbOf(k, pid) == Unwrap(k.process_table[Unwrap(locate_process(k, pid))])

\* the record of a call that left the kernel in state k
Effect(k, call) == IF k = kernel THEN done ELSE call

\* the ids the allocators gave out between kernel states k and k2
DrawnPids(k, k2) == k.next_pid .. (k2.next_pid - 1)
DrawnTids(k, k2) == k.next_thread .. (k2.next_thread - 1)

\* the ids of the threads of process pid
ThreadIdsOf(k, pid) ==
    { Unwrap(k.thread_table[i]).id :
        i \in { j \in ThreadSlots : IsSome(k.thread_table[j])
                                     /\ Unwrap(k.thread_table[j]).process = pid } }

\* issued, after a spawn call that took the kernel from k to k2 and returned
\* the ids in pids and tids: the ids returned and the ids the allocators used up
Issue(k, k2, pids, tids) ==
    [ pids |-> issued.pids \cup pids \cup DrawnPids(k, k2),
      tids |-> issued.tids \cup tids \cup DrawnTids(k, k2) ]

Observe(k) == [snap |-> ThreadOrder(k.scheduler), dlog |-> <<>>, ticks |-> 0]

\* the threads a scheduler driven on its own is handed: one per enqueue call
RingTids == 1 .. MaxEnqueues
RingPids == 1 .. 2

\* the callers of the clock and the threads sharing the lock
Callers == 1 .. MaxCallers
Lockers == 1 .. MaxLockers

\* the state _start reaches before its loop: Kernel::new() and bootstrap()
Init ==
    /\ kernel = Kernel_bootstrap(Kernel_new)
    /\ hw_clock = KernelTime_init(HardwareClock_new, DEFAULT_FREQUENCY_HZ)
    /\ done = [op |-> "bootstrap"]
    /\ inflight = [p \in AllPids |-> <<>>]
    /\ obs = Observe(Kernel_bootstrap(Kernel_new))
    /\ issued = [pids |-> {}, tids |-> {}]
    /\ ring = Scheduler_new
    /\ ring_obs = [ stamp |-> [t \in RingTids |-> 0], count |-> 0,
                    returned |-> <<>>, held |-> None ]
    /\ clock_obs = [seen |-> [c \in Callers |-> None], ret |-> [op |-> "none"]]
    /\ spin = [ lock |-> SpinLock_new(0), pc |-> [t \in Lockers |-> "idle"],
                local |-> [t \in Lockers |-> 0], ret |-> [op |-> "none"] ]
    /\ memory = MemoryManager_new
    /\ mem_done = [op |-> "none"]
    /\ table = SecurityKernel_new
    /\ table_obs = [registered |-> {}, ret |-> [op |-> "none"]]

Bootstrap ==
    /\ kernel' = Kernel_bootstrap(kernel)
    /\ hw_clock' = KernelTime_init(hw_clock, DEFAULT_FREQUENCY_HZ)
    /\ done' = [op |-> "bootstrap"]
    /\ inflight' = [p \in AllPids |-> <<>>]
    /\ obs' = Observe(kernel')
    /\ issued' = [pids |-> {}, tids |-> {}]
    /\ UNCHANGED <<ring_vars, clock_vars, lock_vars, mem_vars, table_vars>>

BringUpSecondaryCores(count) ==
    /\ kernel' = bring_up_secondary_cores(kernel, count)
    /\ done' = Effect(kernel', [op |-> "bring_up_secondary_cores"])
    /\ obs' = Observe(kernel')
    /\ UNCHANGED <<hw_clock, inflight>>
    /\ UNCHANGED issued
    /\ UNCHANGED <<ring_vars, clock_vars, lock_vars, mem_vars, table_vars>>

SpawnProcess(priority, creds, pid_limit, tid_limit) ==
    /\ LET r == Kernel_spawn_process(kernel, 0, priority, None, creds)
       IN /\ r.k.next_pid <= pid_limit + 1
          /\ r.k.next_thread <= tid_limit + 1
          /\ kernel' = r.k
          /\ done' = Effect(kernel', [op |-> "spawn_process", res |-> r.res, pid |-> r.pid])
          /\ issued' = IF r.res = "Ok"
                        THEN Issue(kernel, r.k, {r.pid}, ThreadIdsOf(r.k, r.pid))
                        ELSE Issue(kernel, r.k, {}, {})
    /\ obs' = Observe(kernel')
    /\ UNCHANGED <<hw_clock, inflight>>
    /\ UNCHANGED <<ring_vars, clock_vars, lock_vars, mem_vars, table_vars>>

SpawnThread(pid, priority, tid_limit) ==
    /\ LET r == Kernel_spawn_thread(kernel, pid, 0, priority)
       IN /\ r.k.next_thread <= tid_limit + 1
          /\ kernel' = r.k
          /\ done' = Effect(kernel', [op |-> "spawn_thread", res |-> r.res, id |-> r.id])
          /\ issued' = Issue(kernel, r.k, {}, IF r.res = "Ok" THEN {r.id} ELSE {})
    /\ obs' = Observe(kernel')
    /\ UNCHANGED <<hw_clock, inflight>>
    /\ UNCHANGED <<ring_vars, clock_vars, lock_vars, mem_vars, table_vars>>

TerminateProcess(pid) ==
    /\ kernel' = Kernel_terminate_process(kernel, pid)
    /\ done' = Effect(kernel', [op |-> "terminate_process", found |-> IsSome(locate_process(kernel, pid))])
    /\ inflight' = [inflight EXCEPT ![pid] = <<>>]
    /\ obs' = Observe(kernel')
    /\ UNCHANGED hw_clock
    /\ UNCHANGED issued
    /\ UNCHANGED <<ring_vars, clock_vars, lock_vars, mem_vars, table_vars>>

TerminateThread(thread) ==
    /\ kernel' = Kernel_terminate_thread(kernel, thread)
    /\ done' = Effect(kernel', [op |-> "terminate_thread", found |-> IsSome(locate_thread(kernel, thread))])
    /\ obs' = Observe(kernel')
    /\ UNCHANGED <<hw_clock, inflight>>
    /\ UNCHANGED issued
    /\ UNCHANGED <<ring_vars, clock_vars, lock_vars, mem_vars, table_vars>>

\* wake_threads of send_message: the receiver was Blocked when the message arrived
WakesReceiver(k, receiver) ==
    IsSome(locate_process(k, receiver)) /\ PcbOf(k, receiver).state = "Blocked"

SendMessage(sender, receiver, class, seq_limit) ==
    /\ LET r == Kernel_send_message(kernel, sender, receiver, MessagePayload_empty(class))
       IN /\ r.k.message_sequence <= seq_limit
          /\ kernel' = r.k
          /\ done' = Effect(kernel', [ op |-> "send_message", res |-> r.res,
                      woke |-> r.res = "Ok" /\ WakesReceiver(kernel, receiver) ])
          /\ inflight' = IF r.res = "Ok"
                         THEN [inflight EXCEPT ![receiver] =
                                  Append(@, Message_new(sender, receiver,
                                                kernel.message_sequence,
                                                MessagePayload_empty(class)))]
                         ELSE inflight
    /\ obs' = Observe(kernel')
    /\ UNCHANGED hw_clock
    /\ UNCHANGED issued
    /\ UNCHANGED <<ring_vars, clock_vars, lock_vars, mem_vars, table_vars>>

ReceiveMessage(pid) ==
    /\ LET r == Kernel_receive_message(kernel, pid)
       IN /\ kernel' = r.k
          /\ done' = Effect(kernel', [ op |-> "receive_message", res |-> r.res, message |-> r.message,
                      oldest |-> IF inflight[pid] = <<>> THEN None
                                 ELSE Some(Head(inflight[pid])) ])
    /\ inflight' = [inflight EXCEPT ![pid] = IF @ = <<>> THEN @ ELSE Tail(@)]
    /\ obs' = Observe(kernel')
    /\ UNCHANGED hw_clock
    /\ UNCHANGED issued
    /\ UNCHANGED <<ring_vars, clock_vars, lock_vars, mem_vars, table_vars>>

BlockForMessage(pid) ==
    /\ kernel' = Kernel_block_for_message(kernel, pid)
    /\ done' = Effect(kernel', [op |-> "block_for_message", found |-> IsSome(locate_process(kernel, pid))])
    /\ obs' = Observe(kernel')
    /\ UNCHANGED <<hw_clock, inflight>>
    /\ UNCHANGED issued
    /\ UNCHANGED <<ring_vars, clock_vars, lock_vars, mem_vars, table_vars>>

Tick(tick_limit) ==
    /\ hw_clock.counter < tick_limit
    /\ hw_clock' = HardwareClock_tick(hw_clock)
    /\ LET r == Kernel_tick(kernel)
       IN /\ kernel' = r.k
          /\ done' = [op |-> "tick", ran |-> r.ran]
          /\ obs' = [obs EXCEPT !.dlog = @ \o r.ran, !.ticks = @ + 1]
          \* a process torn down inside the tick takes its messages with it
          /\ inflight' = [p \in AllPids |->
                             IF p \in LivePids(r.k) THEN inflight[p] ELSE <<>>]
    /\ UNCHANGED issued
    /\ UNCHANGED <<ring_vars, clock_vars, lock_vars, mem_vars, table_vars>>

Quarantine(pid) ==
    /\ kernel' = [kernel EXCEPT !.security = set_quarantine_events(@, pid, 1)]
    /\ done' = Effect(kernel', [op |-> "quarantine"])
    /\ obs' = Observe(kernel')
    /\ UNCHANGED <<hw_clock, inflight>>
    /\ UNCHANGED issued
    /\ UNCHANGED <<ring_vars, clock_vars, lock_vars, mem_vars, table_vars>>

(***************************************************************************)
(* The Scheduler interface, called directly.                               *)
(***************************************************************************)
RingEnqueue(process, priority) ==
    /\ ring_obs.count < MaxEnqueues
    /\ LET thread == ring_obs.count + 1
           r == Scheduler_enqueue(ring, ScheduledThread_new(thread, process, priority))
       IN /\ ring' = r.s
          /\ ring_obs' = [ring_obs EXCEPT
                 !.count = @ + 1,
                 !.stamp[thread] = IF r.res = "Ok" THEN ring_obs.count + 1 ELSE @]
    /\ UNCHANGED <<kernel_vars, clock_vars, lock_vars, mem_vars, table_vars>>

RingRequeue ==
    /\ ring_obs.count < MaxEnqueues
    /\ IsSome(ring_obs.held)
    /\ LET entry == consume_then_reset(Unwrap(ring_obs.held))
           r == Scheduler_requeue(ring, entry)
       IN /\ ring' = r.s
          /\ ring_obs' = [ring_obs EXCEPT
                 !.count = @ + 1,
                 !.held = None,
                 !.stamp[entry.thread] = IF r.res = "Ok" THEN ring_obs.count + 1 ELSE @]
    /\ UNCHANGED <<kernel_vars, clock_vars, lock_vars, mem_vars, table_vars>>

RingNext ==
    /\ LET r == Scheduler_next(ring)
       IN /\ ring' = r.s
          /\ ring_obs' = IF IsSome(r.entry)
                         THEN [ring_obs EXCEPT
                                  !.held = r.entry,
                                  !.returned = Append(@, ring_obs.stamp[Unwrap(r.entry).thread])]
                         ELSE ring_obs
    /\ UNCHANGED <<kernel_vars, clock_vars, lock_vars, mem_vars, table_vars>>

RingRemoveThread(thread) ==
    /\ ring' = Scheduler_remove_thread(ring, thread)
    /\ UNCHANGED ring_obs
    /\ UNCHANGED <<kernel_vars, clock_vars, lock_vars, mem_vars, table_vars>>

RingRemoveProcess(process) ==
    /\ ring' = Scheduler_remove_process(ring, process)
    /\ UNCHANGED ring_obs
    /\ UNCHANGED <<kernel_vars, clock_vars, lock_vars, mem_vars, table_vars>>

\* reset() empties the ring; the caller keeps the entry it holds
RingReset ==
    /\ ring' = Scheduler_reset(ring)
    /\ UNCHANGED ring_obs
    /\ UNCHANGED <<kernel_vars, clock_vars, lock_vars, mem_vars, table_vars>>

(***************************************************************************)
(* The clock under concurrent callers.  Each call is one atomic            *)
(* instruction on the counter (fetch_add or load, SeqCst), so a call is    *)
(* one step and the steps of the callers interleave freely.                *)
(***************************************************************************)
ClockTick(caller) ==
    /\ hw_clock' = HardwareClock_tick(hw_clock)
    /\ clock_obs' = [clock_obs EXCEPT !.ret =
           [ op |-> "tick", value |-> HardwareClock_tick_value(hw_clock).value,
             overflow |-> HardwareClock_tick_value(hw_clock).overflow ]]
    /\ UNCHANGED <<kernel, done, inflight, obs, issued>>
    /\ UNCHANGED <<ring_vars, lock_vars, mem_vars, table_vars>>

ClockAdvance(caller, ticks) ==
    /\ LET r == HardwareClock_advance(hw_clock, ticks)
       IN /\ hw_clock' = r.clock
          /\ clock_obs' = [clock_obs EXCEPT !.ret =
                 [ op |-> "advance", ticks |-> ticks, value |-> r.value,
                   overflow |-> r.overflow ]]
    /\ UNCHANGED <<kernel, done, inflight, obs, issued>>
    /\ UNCHANGED <<ring_vars, lock_vars, mem_vars, table_vars>>

ClockNow(caller) ==
    /\ clock_obs' = [ seen |-> [clock_obs.seen EXCEPT ![caller] =
                                    Some(HardwareClock_now(hw_clock))],
                      ret |-> [op |-> "now", value |-> HardwareClock_now(hw_clock)] ]
    /\ UNCHANGED kernel_vars
    /\ UNCHANGED <<ring_vars, lock_vars, mem_vars, table_vars>>

(***************************************************************************)
(* The SpinLock under concurrent threads.  A thread is idle, spinning      *)
(* (inside lock(), its exchange failed), holding (it has the guard) or     *)
(* updating (it has read the data through the guard and not yet written    *)
(* it back).                                                               *)
(***************************************************************************)
Guards(sp) == {t \in Lockers : sp.pc[t] \in {"holding", "updating"}}

Lock(thread) ==
    /\ spin.pc[thread] \in {"idle", "spinning"}
    /\ LET r == SpinLock_lock_turn(spin.lock)
       IN spin' = [spin EXCEPT !.lock = r.lock,
                               !.pc[thread] = IF r.guard THEN "holding" ELSE "spinning",
                               !.ret = [op |-> "lock", thread |-> thread, guard |-> r.guard]]
    /\ UNCHANGED <<kernel_vars, ring_vars, clock_vars, mem_vars, table_vars>>

TryLock(thread) ==
    /\ spin.pc[thread] \in {"idle", "holding"}
    /\ LET r == SpinLock_try_lock(spin.lock)
       IN spin' = [spin EXCEPT !.lock = r.lock,
                               !.pc[thread] = IF r.guard THEN "holding" ELSE @,
                               !.ret = [op |-> "try_lock", thread |-> thread, guard |-> r.guard]]
    /\ UNCHANGED <<kernel_vars, ring_vars, clock_vars, mem_vars, table_vars>>

\* Deref: the holder copies the data
ReadData(thread) ==
    /\ spin.pc[thread] = "holding"
    /\ spin.lock.data < MaxUpdates
    /\ spin' = [spin EXCEPT !.local[thread] = spin.lock.data,
                            !.pc[thread] = "updating",
                            !.ret = [op |-> "deref", thread |-> thread]]
    /\ UNCHANGED <<kernel_vars, ring_vars, clock_vars, mem_vars, table_vars>>

\* DerefMut: the holder stores its copy plus one
WriteData(thread) ==
    /\ spin.pc[thread] = "updating"
    /\ spin' = [spin EXCEPT !.lock.data = spin.local[thread] + 1,
                            !.pc[thread] = "holding",
                            !.ret = [op |-> "deref_mut", thread |-> thread]]
    /\ UNCHANGED <<kernel_vars, ring_vars, clock_vars, mem_vars, table_vars>>

\* Drop for SpinLockGuard
DropGuard(thread) ==
    /\ spin.pc[thread] = "holding"
    /\ spin' = [spin EXCEPT !.lock = SpinLock_unlock(spin.lock),
                            !.pc[thread] = "idle",
                            !.ret = [op |-> "drop", thread |-> thread]]
    /\ UNCHANGED <<kernel_vars, ring_vars, clock_vars, mem_vars, table_vars>>

(***************************************************************************)
(* The memory manager.  Every call runs under the lock of MEMORY_MANAGER,  *)
(* so a call is one step.                                                  *)
(***************************************************************************)
\* the pointers callers pass: word-aligned offsets, the last one past the heap
Ptrs == {o \in 0 .. HEAP_SIZE : o % WORD = 0}
Sizes == {0, 1, WORD + 1, USIZE_MODULUS - 1}
\* the alignments callers pass: malloc_aligned takes any usize, the largest
\* one included, with which align_up wraps on every offset but 0 and 1
Aligns == {0, 1, WORD + 4, 2 * WORD, USIZE_MODULUS - 1}
\* the alignments with which align_up wraps on no offset of the heap
HeapAligns == {align \in Aligns : ~align_up(HEAP_SIZE, align).overflow}
Lengths == {0, 1, PAGE_SIZE + 1}

\* the addresses the heap array can start at: the struct is aligned as usize
\* is and nothing aligns the array inside it to more than that
HeapBases == {b \in 0 .. PAGE_SIZE : b % WORD = 0}

\* heap.as_mut_ptr().add(offset)
Address(base, offset) == base + offset

\* usize::is_power_of_two
is_power_of_two(n) == n > 0 /\ BitAnd(n, n - 1) = 0

\* how a call of the allocator ends.  It returns (ret is what mem_done
\* keeps of it) or, when an align_up in it overflowed, it may panic instead:
\* the build with overflow checks panics at the addition, before the call
\* has changed anything, and the panic handler never returns; the build
\* without them returns what the wrapped sum leads to.
Returns(m, overflow, ret) ==
    /\ mem_done.op /= "panic"
    /\ \/ /\ memory' = m
          /\ mem_done' = ret
       \/ /\ overflow
          /\ memory' = memory
          /\ mem_done' = [op |-> "panic"]

Malloc(size) ==
    /\ LET r == MemoryManager_malloc(memory, size)
       IN Returns(r.m, r.overflow, [op |-> "malloc", ptr |-> r.ptr])
    /\ UNCHANGED <<kernel_vars, ring_vars, clock_vars, lock_vars, table_vars>>

MallocAligned(size, align) ==
    /\ LET r == MemoryManager_malloc_aligned(memory, size, align)
       IN Returns(r.m, r.overflow, [op |-> "malloc_aligned", align |-> align, ptr |-> r.ptr])
    /\ UNCHANGED <<kernel_vars, ring_vars, clock_vars, lock_vars, table_vars>>

Realloc(ptr, new_size) ==
    /\ LET r == MemoryManager_realloc(memory, ptr, new_size)
       IN Returns(r.m, r.overflow, [op |-> "realloc", ptr |-> r.ptr])
    /\ UNCHANGED <<kernel_vars, ring_vars, clock_vars, lock_vars, table_vars>>

Free(ptr) ==
    /\ LET r == MemoryManager_free(memory, ptr)
       IN Returns(r.m, FALSE, [op |-> "free", ok |-> r.ok])
    /\ UNCHANGED <<kernel_vars, ring_vars, clock_vars, lock_vars, table_vars>>

Mmap(length, protection) ==
    /\ LET r == MemoryManager_mmap(memory, length, protection)
       IN Returns(r.m, r.overflow, [op |-> "mmap", region |-> r.region])
    /\ UNCHANGED <<kernel_vars, ring_vars, clock_vars, lock_vars, table_vars>>

Munmap(ptr, length) ==
    /\ LET r == MemoryManager_munmap(memory, [ptr |-> ptr, length |-> length])
       IN Returns(r.m, FALSE, [op |-> "munmap", ok |-> r.ok])
    /\ UNCHANGED <<kernel_vars, ring_vars, clock_vars, lock_vars, table_vars>>

(***************************************************************************)
(* The security table, called directly.  table_obs keeps the pids whose    *)
(* latest register_task returned Ok and that were not revoked since, and   *)
(* the latest call with its result.                                        *)
(***************************************************************************)
RegisterTask(pid, creds) ==
    /\ LET r == register_task(table, pid, creds)
       IN /\ table' = r.sec
          /\ table_obs' = [ registered |-> IF r.res = "Ok"
                                           THEN table_obs.registered \cup {pid}
                                           ELSE table_obs.registered,
                            ret |-> [op |-> "register_task", pid |-> pid, res |-> r.res] ]
    /\ UNCHANGED <<kernel_vars, ring_vars, clock_vars, lock_vars, mem_vars>>

RevokeTask(pid) ==
    /\ table' = revoke_task(table, pid)
    /\ table_obs' = [ registered |-> table_obs.registered \ {pid},
                      ret |-> [ op |-> "revoke_task", pid |-> pid,
                                was |-> pid \in table_obs.registered ] ]
    /\ UNCHANGED <<kernel_vars, ring_vars, clock_vars, lock_vars, mem_vars>>

\* reset() drops every domain
TableReset ==
    /\ table' = SecurityKernel_reset(table)
    /\ table_obs' = [registered |-> {}, ret |-> [op |-> "reset"]]
    /\ UNCHANGED <<kernel_vars, ring_vars, clock_vars, lock_vars, mem_vars>>

(***************************************************************************)
(* Spec: every facade operation, on a kernel whose processes hold          *)
(* Credentials::system(), as the initial process of _start does; only      *)
(* core 0 is online (CoreSpec brings up the secondary cores).              *)
(***************************************************************************)
Pids == 1 .. MaxPid
Tids == 1 .. MaxTid

Next ==
    \/ Bootstrap
    \/ \E priority \in Priorities, creds \in CredsPool :
           SpawnProcess(priority, creds, MaxPid, MaxTid)
    \/ \E pid \in Pids, priority \in Priorities : SpawnThread(pid, priority, MaxTid)
    \/ \E pid \in Pids : TerminateProcess(pid)
    \/ \E thread \in Tids : TerminateThread(thread)
    \/ \E sender \in Pids, receiver \in Pids, class \in Classes :
           SendMessage(sender, receiver, class, MaxSeq)
    \/ \E pid \in Pids : ReceiveMessage(pid)
    \/ \E pid \in Pids : BlockForMessage(pid)
    \/ Tick(MaxTicks)

Spec == Init /\ [][Next]_vars

(***************************************************************************)
(* IpcSpec: two system processes send, queue and receive messages,         *)
(* interleaved with block_for_message, tick and termination.               *)
(***************************************************************************)
IpcPids == 1 .. IpcMaxPid

IpcNext ==
    \/ \E priority \in Priorities, creds \in CredsPool :
           SpawnProcess(priority, creds, IpcMaxPid, IpcMaxPid)
    \/ \E pid \in IpcPids : TerminateProcess(pid)
    \/ \E sender \in IpcPids, receiver \in IpcPids, class \in Classes :
           SendMessage(sender, receiver, class, IpcMaxSeq)
    \/ \E pid \in IpcPids : ReceiveMessage(pid)
    \/ \E pid \in IpcPids : BlockForMessage(pid)
    \/ Tick(IpcMaxTicks)

IpcSpec == Init /\ [][IpcNext]_vars

(***************************************************************************)
(* AuthSpec: processes of every kind of credentials come and go and try to *)
(* send messages of every class to one another.                            *)
(***************************************************************************)
AuthPids == 1 .. AuthMaxPid

AuthNext ==
    \/ \E priority \in Priorities, creds \in AuthCredsPool :
           SpawnProcess(priority, creds, AuthMaxPid, AuthMaxPid)
    \/ \E pid \in AuthPids : TerminateProcess(pid)
    \/ \E sender \in AuthPids, receiver \in AuthPids, class \in SecurityClasses :
           SendMessage(sender, receiver, class, AuthMaxSeq)
    \/ \E pid \in AuthPids : ReceiveMessage(pid)

AuthSpec == Init /\ [][AuthNext]_vars

(***************************************************************************)
(* SoloSpec: one process spawns and ends threads, blocks, sends to itself  *)
(* and is ticked.                                                          *)
(***************************************************************************)
SoloTids == 1 .. SoloMaxTid

SoloNext ==
    \/ \E priority \in Priorities, creds \in CredsPool :
           SpawnProcess(priority, creds, 1, SoloMaxTid)
    \/ \E priority \in Priorities : SpawnThread(1, priority, SoloMaxTid)
    \/ \E thread \in SoloTids : TerminateThread(thread)
    \/ SendMessage(1, 1, "Public", SoloMaxSeq)
    \/ BlockForMessage(1)
    \/ Tick(SoloMaxTicks)

SoloSpec == Init /\ [][SoloNext]_vars

(***************************************************************************)
(* FaultSpec: system and VirtualMachine-isolated processes, some of them   *)
(* quarantined, are dispatched by tick.                                    *)
(***************************************************************************)
FaultPids == 1 .. FaultMaxPid
FaultTids == 1 .. FaultMaxTid
FaultCredsPool == {Credentials_system, Credentials_vm}

FaultNext ==
    \/ \E priority \in Priorities, creds \in FaultCredsPool :
           SpawnProcess(priority, creds, FaultMaxPid, FaultMaxTid)
    \/ \E pid \in FaultPids, priority \in Priorities :
           SpawnThread(pid, priority, FaultMaxTid)
    \/ \E thread \in FaultTids : TerminateThread(thread)
    \/ \E pid \in FaultPids : BlockForMessage(pid)
    \/ \E pid \in FaultPids : Quarantine(pid)
    \/ Tick(FaultMaxTicks)

FaultSpec == Init /\ [][FaultNext]_vars

(***************************************************************************)
(* CoreSpec: one process and its threads are dispatched by tick while      *)
(* secondary cores are brought online.                                     *)
(***************************************************************************)
CoreNext ==
    \/ \E count \in 0 .. MAX_CORES : BringUpSecondaryCores(count)
    \/ \E priority \in Priorities : SpawnProcess(priority, Credentials_system, 1, CoreMaxTid)
    \/ \E priority \in Priorities : SpawnThread(1, priority, CoreMaxTid)
    \/ \E thread \in 1 .. CoreMaxTid : TerminateThread(thread)
    \/ BlockForMessage(1)
    \/ Tick(CoreMaxTicks)

CoreSpec == Init /\ [][CoreNext]_vars

(***************************************************************************)
(* BootSpec: the kernel is bootstrapped, filled and ticked in any order,   *)
(* a second Kernel instance is bootstrapped in between, and a reader reads *)
(* the clock right after a tick.  KERNEL_TIME and HARDWARE_CLOCK are       *)
(* statics: all instances share them.                                      *)
(***************************************************************************)
\* bootstrap() of another Kernel instance: of the state of this kernel it
\* touches the shared clock only
BootstrapOther ==
    \* the cycles this kernel's boot core has counted stay bounded
    /\ kernel.core_states[0].local_ticks + kernel.core_states[0].idle_ticks < BootMaxTicks
    /\ hw_clock' = KernelTime_init(hw_clock, DEFAULT_FREQUENCY_HZ)
    /\ done' = [op |-> "bootstrap_other"]
    /\ UNCHANGED <<kernel, inflight, obs, issued>>
    /\ UNCHANGED <<ring_vars, clock_vars, lock_vars, mem_vars, table_vars>>

BootNext ==
    \/ Bootstrap
    \/ BootstrapOther
    \/ \E priority \in Priorities :
           SpawnProcess(priority, Credentials_system, BootMaxPid, BootMaxPid)
    \/ Tick(BootMaxTicks)
    \/ (done.op = "tick" /\ ClockNow(1))

BootSpec == Init /\ [][BootNext]_vars

(***************************************************************************)
(* TableSpec: a SecurityKernel on its own, under any sequence of           *)
(* register_task, revoke_task and reset.                                   *)
(***************************************************************************)
TablePids == 0 .. MaxTablePid

TableNext ==
    \/ \E pid \in TablePids, creds \in {Credentials_system, Credentials_user} :
           RegisterTask(pid, creds)
    \/ \E pid \in TablePids : RevokeTask(pid)
    \/ TableReset

TableSpec == Init /\ [][TableNext]_vars

(***************************************************************************)
(* RingSpec: a Scheduler on its own, under any sequence of its calls,      *)
(* reset included.                                                         *)
(***************************************************************************)
RingStep ==
    \/ \E process \in RingPids, priority \in Priorities : RingEnqueue(process, priority)
    \/ RingRequeue
    \/ RingNext
    \/ \E thread \in RingTids : RingRemoveThread(thread)
    \/ \E process \in RingPids : RingRemoveProcess(process)
    \/ RingReset

RingSpec == Init /\ [][RingStep]_vars

(***************************************************************************)
(* ClockSpec: the clock called by concurrent callers, with every amount    *)
(* advance() accepts.                                                      *)
(***************************************************************************)
ClockNext ==
    \/ \E caller \in Callers : ClockTick(caller)
    \/ \E caller \in Callers, ticks \in 0 .. (U64_MODULUS - 1) : ClockAdvance(caller, ticks)
    \/ \E caller \in Callers : ClockNow(caller)

ClockSpec == Init /\ [][ClockNext]_vars

(***************************************************************************)
(* LockSpec: threads taking, using and dropping one SpinLock.              *)
(***************************************************************************)
LockNext ==
    \/ \E thread \in Lockers : Lock(thread)
    \/ \E thread \in Lockers : TryLock(thread)
    \/ \E thread \in Lockers : ReadData(thread)
    \/ \E thread \in Lockers : WriteData(thread)
    \/ \E thread \in Lockers : DropGuard(thread)

LockSpec == Init /\ [][LockNext]_vars

(***************************************************************************)
(* HeapSpec: a MemoryManager under any sequence of its calls.              *)
(***************************************************************************)
HeapNext ==
    \/ \E size \in Sizes : Malloc(size)
    \/ \E size \in Sizes, align \in HeapAligns : MallocAligned(size, align)
    \/ \E ptr \in {None} \cup {Some(o) : o \in Ptrs}, new_size \in Sizes : Realloc(ptr, new_size)
    \/ \E ptr \in Ptrs : Free(ptr)
    \/ \E length \in Lengths : Mmap(length, MemoryProtection_read_only)
    \/ \E ptr \in Ptrs, length \in {PAGE_SIZE, 2 * PAGE_SIZE} : Munmap(ptr, length)

HeapSpec == Init /\ [][HeapNext]_vars

(***************************************************************************)
(* AlignSpec: the memory manager under malloc, malloc_aligned and free of  *)
(* small blocks with alignments of every kind, the ones with which         *)
(* align_up wraps included.                                                *)
(***************************************************************************)
\* the sizes asked for where the alignment is what varies
AlignSizes == {size \in Sizes : size <= 1}

AlignNext ==
    \/ \E size \in AlignSizes : Malloc(size)
    \/ \E size \in AlignSizes, align \in Aligns : MallocAligned(size, align)
    \/ \E ptr \in Ptrs : Free(ptr)

AlignSpec == Init /\ [][AlignNext]_vars

(***************************************************************************)
(* Properties                                                              *)
(***************************************************************************)

\* what the claim on send_message asks of sender and receiver
SendPermitted(k, sender, receiver, class) ==
    \E sd \in Domains(k.security), rd \in Domains(k.security) :
        /\ sd.pid = sender
        /\ rd.pid = receiver
        /\ CAP_IPC \in sd.capabilities
        /\ dominates(sd.label, as_label(class))
        /\ dominates(rd.label, as_label(class))
        /\ ~(sd.isolation = "VirtualMachine" /\ rd.isolation = "None")

\* C1: in every reachable state and for every sender, receiver and payload
\* class, send_message returns Ok only if both have a registered domain, the
\* sender holds the IPC capability, both labels dominate the label of the
\* class and the sender is not VirtualMachine-isolated with a receiver of
\* isolation None; in every other case it returns SecurityViolation and
\* leaves every message queue as it was.
C1_SendOnlyWhenAuthorized ==
    \A sender \in AuthPids, receiver \in AuthPids, class \in SecurityClasses :
        LET r == Kernel_send_message(kernel, sender, receiver, MessagePayload_empty(class))
        IN /\ r.res = "Ok" => SendPermitted(kernel, sender, receiver, class)
           /\ ~SendPermitted(kernel, sender, receiver, class) =>
                  /\ r.res = "SecurityViolation"
                  /\ r.k.ipc_queues = kernel.ipc_queues

\* a message was sent and is queued, and a VirtualMachine-isolated process
\* that dominates class Public faces a process of isolation None
C1_Witness ==
    /\ \E pid \in AuthPids : inflight[pid] /= <<>>
    /\ \E sd \in Domains(kernel.security), rd \in Domains(kernel.security) :
           /\ sd.isolation = "VirtualMachine"
           /\ rd.isolation = "None"
           /\ Kernel_send_message(kernel, sd.pid, rd.pid,
                  MessagePayload_empty("Public")).res = "SecurityViolation"

\* C2: in every reachable state, receive_message on a live process returns
\* the oldest message sent to it with success and not yet received, and
\* MessageQueueEmpty exactly when there is none: messages are received in
\* the order of the successful sends, none lost, none twice.
C2_ReceiveInSendOrder ==
    \A pid \in LivePids(kernel) :
        LET r == Kernel_receive_message(kernel, pid)
        IN IF inflight[pid] = <<>>
           THEN r.res = "MessageQueueEmpty" /\ r.k = kernel
           ELSE /\ r.res = "Ok"
                /\ r.message = Some(Head(inflight[pid]))
                /\ QueueContents(r.k.ipc_queues[Unwrap(locate_process(kernel, pid))])
                       = Tail(inflight[pid])

\* a receiver that has received a message holds two more from one sender
\* (its queue has wrapped around), and a tick has gone by
C2_Witness ==
    \E pid \in LivePids(kernel) :
        /\ Len(inflight[pid]) = 2
        /\ inflight[pid][1].sender = inflight[pid][2].sender
        /\ inflight[pid][1].sequence > 0
        /\ kernel.ipc_queues[Unwrap(locate_process(kernel, pid))].head /= 0
        /\ hw_clock.counter > 0

\* the TCBs of a process that are in a given state
TcbsIn(k, pid, state) ==
    {tcb \in LiveTcbs(k) : tcb.process = pid /\ tcb.state = state}

\* C3: when send_message to a receiver whose PCB is Blocked succeeds, then
\* on return the receiver's PCB is Ready and every TCB of the receiver that
\* was Blocked is Ready and has an entry in the scheduler ring.
C3_SendWakesReceiver ==
    [][ ( /\ SendMessage(1, 1, "Public", SoloMaxSeq)
          /\ WakesReceiver(kernel, 1)
          /\ Kernel_send_message(kernel, 1, 1, MessagePayload_empty("Public")).res = "Ok" )
        => /\ PcbOf(kernel', 1).state = "Ready"
           /\ \A was \in TcbsIn(kernel, 1, "Blocked") :
                  /\ \E tcb \in TcbsIn(kernel', 1, "Ready") : tcb.id = was.id
                  /\ \E entry \in RingEntries(kernel'.scheduler) : entry.thread = was.id
      ]_vars

\* no trace of pid is left in kernel k, whose PCB and queue were in `slot`
NoTraceOf(k, pid, slot) ==
    /\ \A d \in Domains(k.security) : d.pid /= pid
    /\ \A other \in Pids, class \in SecurityClasses :
           /\ authorize_ipc(k.security, pid, other, class) = "UnknownTask"
           /\ authorize_ipc(k.security, other, pid, class) = "UnknownTask"
    /\ enforce_isolation(k.security, pid) = "UnknownTask"
    /\ \A entry \in RingEntries(k.scheduler) : entry.process /= pid
    /\ \A tcb \in LiveTcbs(k) : tcb.process /= pid
    /\ k.process_table[slot] = None
    /\ k.ipc_queues[slot] = MessageQueue_new

\* C4: after terminate_process(p) on a live process p the security table has
\* no domain for p (authorize_ipc and enforce_isolation answer UnknownTask),
\* no scheduler entry and no TCB has process p, and the slot that held p's
\* PCB is empty and its message queue is empty.
C4_TerminateLeavesNoTrace ==
    [][ \A pid \in Pids :
            (TerminateProcess(pid) /\ IsSome(locate_process(kernel, pid)))
            => NoTraceOf(kernel', pid, Unwrap(locate_process(kernel, pid)))
      ]_vars

\* a live process was terminated while another one, with a thread in the
\* ring and a message sent, lives on
C4_Witness ==
    /\ done.op = "terminate_process"
    /\ done.found
    /\ LivePids(kernel) /= {}
    /\ RingEntries(kernel.scheduler) /= {}
    /\ kernel.message_sequence > 0

\* the slots of the security table that hold a domain of pid
DomainSlots(sec, pid) ==
    {i \in ProcSlots : IsSome(sec.domains[i]) /\ Unwrap(sec.domains[i]).pid = pid}

\* C5: in every reachable state a pid has a TaskDomain in the security table
\* if and only if a PCB with that pid is in the process table, and no pid has
\* more than one TaskDomain.
C5_DomainIffPcb ==
    \A pid \in AllPids :
        /\ (DomainSlots(kernel.security, pid) /= {}) <=> (pid \in LivePids(kernel))
        /\ Cardinality(DomainSlots(kernel.security, pid)) <= 1

\* after a termination, a process was spawned whose domain collided in the
\* table and sits away from its hash slot
C5_Witness ==
    /\ done.op = "spawn_process"
    /\ done.res = "Ok"
    /\ kernel.next_pid > MAX_PROC + 1
    /\ hash(done.pid) \notin DomainSlots(kernel.security, done.pid)
    /\ Cardinality(LivePids(kernel)) = MAX_PROC

\* C6: next() never returns an entry after an entry that was enqueued later:
\* the stamps of the returned entries strictly increase.
C6_RingFifo ==
    \A i \in DOMAIN ring_obs.returned, j \in DOMAIN ring_obs.returned :
        i < j => ring_obs.returned[i] < ring_obs.returned[j]

\* C7: with one core online and k >= 1 threads in the ring, the ticks that
\* follow (no other call between them) dispatch one thread each, the i-th
\* tick the thread at place ((i - 1) mod k) + 1 of the ring's order.
C7_RoundRobin ==
    LET k == Len(obs.snap)
    IN (online_core_count(kernel) = 1 /\ k >= 1) =>
           /\ Len(obs.dlog) = obs.ticks
           /\ \A i \in DOMAIN obs.dlog : obs.dlog[i] = obs.snap[((i - 1) % k) + 1]

\* C8: in every reachable state every scheduler entry refers to a TCB that
\* is in the thread table, is neither Blocked nor Terminated, and whose
\* process has a PCB in the process table.
C8_RingEntriesRunnable ==
    \A entry \in RingEntries(kernel.scheduler) :
        \E tcb \in LiveTcbs(kernel) :
            /\ tcb.id = entry.thread
            /\ tcb.state \notin {"Blocked", "Terminated"}
            /\ tcb.process \in LivePids(kernel)

\* block_for_message took the threads of one process out of the ring while
\* threads of another stay queued
C8_Witness ==
    /\ done.op = "block_for_message"
    /\ done.found
    /\ \E tcb \in LiveTcbs(kernel) : tcb.state = "Blocked"
    /\ RingEntries(kernel.scheduler) /= {}

\* C9: in every reachable state every TCB in the thread table has the pid of
\* a PCB that is in the process table.
C9_TcbHasLivePcb ==
    \A tcb \in LiveTcbs(kernel) : tcb.process \in LivePids(kernel)

\* a process with more than one thread was terminated (the thread ids are
\* used up, the table holds a single TCB) and another process lives on
C9_Witness ==
    /\ done.op = "terminate_process"
    /\ done.found
    /\ kernel.next_thread > MAX_THREADS
    /\ Cardinality(LiveTcbs(kernel)) = 1

\* C10: in every reachable state the thread_count of each live PCB is the
\* number of TCBs in the thread table with its pid (so the counts add up to
\* the number of live TCBs).
C10_ThreadCountMatches ==
    \A pcb \in LivePcbs(kernel) :
        pcb.thread_count = Cardinality({tcb \in LiveTcbs(kernel) : tcb.process = pcb.pid})

\* terminate_thread ended a thread: one live process is left with no thread
\* (count 0) while another has threads
C10_Witness ==
    /\ done.op = "terminate_thread"
    /\ done.found
    /\ \E pcb \in LivePcbs(kernel) : pcb.thread_count > 0
    /\ \E pcb \in LivePcbs(kernel) : pcb.thread_count = 0

\* the four sets a failed spawn must leave as they were
Population(k) ==
    [ pcbs |-> LivePcbs(k), tcbs |-> LiveTcbs(k),
      entries |-> RingEntries(k.scheduler), domains |-> Domains(k.security) ]

\* C11: in every reachable state, a spawn_process that returns an error
\* (ProcessTableFull, SecurityViolation, ThreadTableFull, SchedulerFull)
\* leaves the live PCBs, the live TCBs, the scheduler entries and the
\* registered domains as they were before the call.
C11_FailedSpawnRollsBack ==
    \A priority \in Priorities, creds \in CredsPool :
        LET r == Kernel_spawn_process(kernel, 0, priority, None, creds)
        IN r.res /= "Ok" => Population(r.k) = Population(kernel)

\* a spawn_process failed on the full thread table after it had taken a pid
\* and registered a domain, with another process alive
C11_Witness ==
    /\ done.op = "spawn_process"
    /\ done.res = "ThreadTableFull"
    /\ LivePids(kernel) /= {}
    /\ Domains(kernel.security) /= {}

\* the pulls of one tick, from core core_index on, that fail enforce_isolation:
\* the process and thread of each entry pulled
RECURSIVE FaultedPulls(_, _)
FaultedPulls(k, core_index) ==
    IF core_index >= MAX_CORES THEN {}
    ELSE IF ~k.core_states[core_index].online THEN FaultedPulls(k, core_index + 1)
    ELSE LET nx == Scheduler_next(k.scheduler)
             here == IF IsSome(nx.entry)
                        /\ enforce_isolation(k.security, Unwrap(nx.entry).process) /= "Ok"
                     THEN {Unwrap(nx.entry)}
                     ELSE {}
         IN here \cup FaultedPulls(run_core(k, core_index).k, core_index + 1)

\* C12: whenever a tick pulls from the ring a thread whose process fails
\* enforce_isolation, the thread is not run in that tick, and after the tick
\* the process has no PCB, no domain, no TCB and no scheduler entry.
C12_IsolationFaultTerminates ==
    [][ Tick(FaultMaxTicks) =>
            \A pulled \in FaultedPulls(kernel, 0) :
                /\ \A i \in DOMAIN done'.ran : done'.ran[i] /= pulled.thread
                /\ \A tcb \in LiveTcbs(kernel') :
                       tcb.id = pulled.thread => tcb.cpu_time = 0
                /\ pulled.process \notin LivePids(kernel')
                /\ \A d \in Domains(kernel'.security) : d.pid /= pulled.process
                /\ \A tcb \in LiveTcbs(kernel') : tcb.process /= pulled.process
                /\ \A entry \in RingEntries(kernel'.scheduler) :
                       entry.process /= pulled.process
      ]_vars

\* a tick found a quarantined VirtualMachine process at the head of the ring
\* and ran nothing, and a process that was spawned is gone while another
\* one is still queued
C12_Witness ==
    /\ done.op = "tick"
    /\ done.ran = <<>>
    /\ kernel.next_pid = FaultMaxPid + 1
    /\ Cardinality(LivePids(kernel)) = 1
    /\ RingEntries(kernel.scheduler) /= {}
    /\ kernel.core_states[0].idle_ticks = 0

\* the number of messages stored in a queue's buffer
StoredMessages(q) == Cardinality({i \in MsgSlots : IsSome(q.buffer[i])})

\* C13: in every reachable state every IPC queue holds at most MSG_DEPTH
\* messages, and a send_message that passes authorization to a receiver whose
\* queue holds MSG_DEPTH messages returns MessageQueueFull and leaves the
\* queues, the PCBs, the TCBs and the scheduler ring as they were (a Blocked
\* receiver is not woken).
C13_FullQueueRejectsSend ==
    /\ \A i \in ProcSlots :
           /\ kernel.ipc_queues[i].len <= MSG_DEPTH
           /\ StoredMessages(kernel.ipc_queues[i]) = kernel.ipc_queues[i].len
    /\ \A sender \in IpcPids, receiver \in LivePids(kernel), class \in Classes :
           LET r == Kernel_send_message(kernel, sender, receiver,
                        MessagePayload_empty(class))
               queue == kernel.ipc_queues[Unwrap(locate_process(kernel, receiver))]
           IN ( /\ authorize_ipc(kernel.security, sender, receiver, class) = "Ok"
                /\ queue.len = MSG_DEPTH )
              => /\ r.res = "MessageQueueFull"
                 /\ r.k.ipc_queues = kernel.ipc_queues
                 /\ r.k.process_table = kernel.process_table
                 /\ r.k.thread_table = kernel.thread_table
                 /\ r.k.scheduler = kernel.scheduler

\* a send was turned down with MessageQueueFull while its receiver, the
\* process with the full queue, is Blocked
C13_Witness ==
    /\ done.op = "send_message"
    /\ done.res = "MessageQueueFull"
    /\ \E pid \in LivePids(kernel) :
           /\ PcbOf(kernel, pid).state = "Blocked"
           /\ kernel.ipc_queues[Unwrap(locate_process(kernel, pid))].len = MSG_DEPTH
           /\ TcbsIn(kernel, pid, "Blocked") /= {}

(***************************************************************************)
(* C14: since the last bootstrap, every successful spawn_process returns   *)
(* a pid that no earlier call was given or used up (terminated processes   *)
(* and failed spawns included), and the id of every thread that            *)
(* spawn_process or spawn_thread creates is one no earlier call was given  *)
(* or used up.                                                             *)
(***************************************************************************)
C14_IdsNeverReused ==
    [][ /\ (kernel' /= kernel /\ done'.op = "spawn_process" /\ done'.res = "Ok")
            => /\ done'.pid \notin issued.pids
               /\ ThreadIdsOf(kernel', done'.pid) /= {}
               /\ ThreadIdsOf(kernel', done'.pid) \cap issued.tids = {}
        /\ (kernel' /= kernel /\ done'.op = "spawn_thread" /\ done'.res = "Ok")
            => done'.id \notin issued.tids ]_vars

\* a spawn succeeded after a process ended and after a failed spawn used up a pid
C14_Witness ==
    /\ done.op = "spawn_process" /\ done.res = "Ok"
    /\ issued.pids \ LivePids(kernel) /= {}
    /\ Cardinality(issued.pids) > Cardinality(LivePids(kernel)) + 1
    /\ issued.tids \ { t.id : t \in LiveTcbs(kernel) } /= {}

(***************************************************************************)
(* C15: in every reachable state, terminate_process(p) called twice in a   *)
(* row leaves the kernel as one call does, and so does                     *)
(* terminate_thread(t); called with an id that is not live, each leaves    *)
(* the whole kernel state as it was.                                       *)
(***************************************************************************)
C15_TerminateIdempotent ==
    /\ \A pid \in Pids :
           LET once == Kernel_terminate_process(kernel, pid)
           IN /\ Kernel_terminate_process(once, pid) = once
              /\ pid \notin LivePids(kernel) => once = kernel
    /\ \A thread \in Tids :
           LET once == Kernel_terminate_thread(kernel, thread)
           IN /\ Kernel_terminate_thread(once, thread) = once
              /\ thread \notin { t.id : t \in LiveTcbs(kernel) } => once = kernel

\* a thread was just terminated; a process with two threads is live, and a
\* pid and a thread id handed out earlier are no longer live
C15_Witness ==
    /\ done.op = "terminate_thread" /\ done.found
    /\ \E pid \in LivePids(kernel) : Cardinality(ThreadIdsOf(kernel, pid)) = 2
    /\ issued.pids \ LivePids(kernel) /= {}
    /\ issued.tids \ { t.id : t \in LiveTcbs(kernel) } /= {}

\* the TCB with the given id
TcbOf(k, thread) == Unwrap(k.thread_table[Unwrap(locate_thread(k, thread))])

(***************************************************************************)
(* C16: after a tick that dispatched a thread of process P (P was live and *)
(* passed enforce_isolation), P still has a PCB, the PCB is Ready and its  *)
(* cpu_time has grown by at least 1, and the thread's TCB is Ready with a  *)
(* larger cpu_time than before the tick.                                   *)
(***************************************************************************)
C16_DispatchAccounts ==
    [][ (done'.op = "tick" /\ hw_clock'.counter = hw_clock.counter + 1) =>
            \A i \in DOMAIN done'.ran :
                LET thread == done'.ran[i]
                    before == TcbOf(kernel, thread)
                    P == before.process
                IN /\ P \in LivePids(kernel)
                   /\ enforce_isolation(kernel.security, P) = "Ok"
                   /\ P \in LivePids(kernel')
                   /\ PcbOf(kernel', P).state = "Ready"
                   /\ PcbOf(kernel', P).cpu_time >= PcbOf(kernel, P).cpu_time + 1
                   /\ IsSome(locate_thread(kernel', thread))
                   /\ TcbOf(kernel', thread).state = "Ready"
                   /\ TcbOf(kernel', thread).cpu_time > before.cpu_time
      ]_vars

\* the second tick dispatched a thread of a process that had run before while
\* another process faulted and was torn down
C16_Witness ==
    /\ done.op = "tick" /\ Len(done.ran) = 1
    /\ TcbOf(kernel, done.ran[1]).cpu_time = 2
    /\ PcbOf(kernel, TcbOf(kernel, done.ran[1]).process).cpu_time = 2
    /\ kernel.next_pid = FaultMaxPid + 1
    /\ Cardinality(LivePids(kernel)) = 1

(***************************************************************************)
(* C17: under any interleaving of tick(), advance(n) and now() by          *)
(* concurrent callers, the value a caller's now() returns is never smaller *)
(* than the value its previous now() returned, and advance(0) returns the  *)
(* counter and leaves it unchanged.                                        *)
(***************************************************************************)
C17_ClockMonotonic ==
    [][ /\ \A caller \in Callers :
               (ClockNow(caller) /\ IsSome(clock_obs.seen[caller]))
                   => clock_obs'.ret.value >= Unwrap(clock_obs.seen[caller])
        /\ \A caller \in Callers :
               ClockAdvance(caller, 0)
                   => clock_obs'.ret.value = hw_clock.counter /\ hw_clock' = hw_clock
      ]_vars

(***************************************************************************)
(* C18: at most one guard of the SpinLock exists at a time; try_lock()     *)
(* returns None exactly when a guard is held; and after a guard is dropped *)
(* the lock is free: no guard exists and try_lock() would succeed.         *)
(***************************************************************************)
C18_MutualExclusion ==
    /\ [](Cardinality(Guards(spin)) <= 1)
    /\ [][ /\ \A thread \in Lockers :
                   TryLock(thread) => (~spin'.ret.guard <=> Guards(spin) /= {})
           /\ \A thread \in Lockers :
                   DropGuard(thread) => /\ Guards(spin') = {}
                                        /\ SpinLock_try_lock(spin'.lock).guard
         ]_vars

\* try_lock() has just returned None to a thread while another thread holds
\* the guard in the middle of its second update and a third one is spinning
C18_Witness ==
    /\ spin.ret.op = "try_lock" /\ ~spin.ret.guard
    /\ \E t \in Lockers : t /= spin.ret.thread /\ spin.pc[t] = "updating"
    /\ \E t \in Lockers : spin.pc[t] = "spinning"
    /\ spin.lock.data = 1

\* the allocation records and the free regions of a manager, each with the
\* array and the slot it is stored in
Areas(m) ==
    { [of |-> "record", slot |-> i, offset |-> Unwrap(m.allocations[i]).offset,
       size |-> Unwrap(m.allocations[i]).size] :
          i \in {j \in AreaSlots : IsSome(m.allocations[j])} }
    \cup
    { [of |-> "free", slot |-> i, offset |-> Unwrap(m.free_regions[i]).offset,
       size |-> Unwrap(m.free_regions[i]).size] :
          i \in {j \in AreaSlots : IsSome(m.free_regions[j])} }

\* the bytes of an area
Bytes(area) == area.offset .. (area.offset + area.size - 1)

(***************************************************************************)
(* C19: in every state reached by malloc, malloc_aligned, realloc, free,   *)
(* mmap and munmap, the byte ranges of the live allocation records and of  *)
(* the free regions are pairwise disjoint and lie inside [0, HEAP_SIZE).   *)
(***************************************************************************)
C19_AreasDisjoint ==
    /\ \A a \in Areas(memory) : Bytes(a) \subseteq 0 .. (HEAP_SIZE - 1)
    /\ \A a, b \in Areas(memory) : a /= b => Bytes(a) \cap Bytes(b) = {}

\* the free regions of a manager
FreeRegions(m) ==
    {Unwrap(m.free_regions[i]) : i \in {j \in AreaSlots : IsSome(m.free_regions[j])}}

(***************************************************************************)
(* C20: no two free regions are adjacent: no free region ends where        *)
(* another one starts.                                                     *)
(***************************************************************************)
C20_FreeRegionsCoalesced ==
    \A f, g \in FreeRegions(memory) : FreeRegion_end(f) /= g.offset

\* free() has joined the block it released with a free neighbour: the free
\* region is larger than any block malloc hands out here, and a live record
\* lies right behind it
C20_Witness ==
    /\ mem_done.op = "free" /\ mem_done.ok
    /\ \E f \in FreeRegions(memory) :
           /\ f.size >= 3 * WORD
           /\ \E a \in Areas(memory) :
                  a.of = "record" /\ a.size > 0 /\ a.offset = FreeRegion_end(f)

(***************************************************************************)
(* C21: wherever the heap array starts, the address malloc returns is a    *)
(* multiple of the word size, the address malloc_aligned(size, align)      *)
(* returns for a power of two align is a multiple of max(align, word       *)
(* size), and the address mmap returns is a multiple of PAGE_SIZE.         *)
(***************************************************************************)
C21_AddressesAligned ==
    \A base \in HeapBases :
        /\ (mem_done.op = "malloc" /\ IsSome(mem_done.ptr))
               => Address(base, Unwrap(mem_done.ptr)) % WORD = 0
        /\ (mem_done.op = "malloc_aligned" /\ IsSome(mem_done.ptr)
                /\ is_power_of_two(mem_done.align))
               => Address(base, Unwrap(mem_done.ptr))
                      % (IF mem_done.align > WORD THEN mem_done.align ELSE WORD) = 0
        /\ (mem_done.op = "mmap" /\ IsSome(mem_done.region))
               => Address(base, Unwrap(mem_done.region).ptr) % PAGE_SIZE = 0

\* the slots that hold a live allocation record
LiveSlots(m) == {i \in AreaSlots : IsSome(m.allocations[i])}

\* a successful free or munmap took the record out of slot i
Released(i) ==
    /\ mem_done'.op \in {"free", "munmap"} /\ mem_done'.ok
    /\ i \in LiveSlots(memory)
    /\ memory'.allocations = [memory.allocations EXCEPT ![i] = None]

(***************************************************************************)
(* C22: a successful free or munmap takes exactly one live record away and *)
(* lowers allocated_bytes by exactly the size recorded in it; whenever no  *)
(* live record is left, allocated_bytes is 0.                              *)
(***************************************************************************)
C22_FreeGivesBytesBack ==
    /\ [](LiveSlots(memory) = {} => memory.allocated_bytes = 0)
    /\ [][(mem_done'.op \in {"free", "munmap"} /\ mem_done'.ok /\ memory' /= memory)
            => \E i \in LiveSlots(memory) :
                   /\ Released(i)
                   /\ memory'.allocated_bytes
                        = memory.allocated_bytes - Unwrap(memory.allocations[i]).size]_vars

\* the last live block, of more than a word, has just been freed
C22_Witness ==
    /\ mem_done.op = "free" /\ mem_done.ok
    /\ LiveSlots(memory) = {}
    /\ memory.peak_bytes > WORD
    /\ \E f \in FreeRegions(memory) : f.size > WORD

\* a heap in which every byte differs from every other one
HeapImage == [o \in 0 .. (HEAP_SIZE - 1) |-> o]

\* what realloc(p, n) has to keep, for the live heap block rec at p of the
\* manager before and the result r of the call
ReallocKeeps(before, rec, p, n, r) ==
    /\ (n > rec.size /\ IsSome(r.ptr))
          => /\ \A i \in 0 .. ((IF rec.size < n THEN rec.size ELSE n) - 1) :
                     r.m.heap[Unwrap(r.ptr) + i] = before.heap[p + i]
             /\ ~IsSome(find_allocation_index(r.m, p))
    /\ (n <= rec.size)
          => /\ r.ptr = Some(p)
             /\ r.m.allocated_bytes <= before.allocated_bytes

\* realloc(p, n) on the manager m holding the bytes of HeapImage
ReallocOf(m, p, n) == MemoryManager_realloc([m EXCEPT !.heap = HeapImage], Some(p), n)

(***************************************************************************)
(* C23: for every live heap block p and every size n >= 1, whatever bytes  *)
(* the heap holds: a successful realloc(p, n) with n larger than the       *)
(* recorded size returns a block whose first min(recorded size, n) bytes   *)
(* are those p held before the call and leaves no live record at p; a      *)
(* realloc(p, n) with n not larger returns p and does not raise            *)
(* allocated_bytes.                                                        *)
(***************************************************************************)
C23_ReallocPreserves ==
    \A p \in 0 .. (HEAP_SIZE - 1), n \in Sizes \ {0} :
        (/\ IsSome(find_allocation_index(memory, p))
         /\ Unwrap(memory.allocations[Unwrap(find_allocation_index(memory, p))]).kind = "Heap")
        => ReallocKeeps([memory EXCEPT !.heap = HeapImage],
                        Unwrap(memory.allocations[Unwrap(find_allocation_index(memory, p))]),
                        p, n, ReallocOf(memory, p, n))

\* the live records of kind `kind` that start at offset p
RecordsAt(m, p, kind) ==
    {Unwrap(m.allocations[i]) :
        i \in {j \in LiveSlots(m) : /\ Unwrap(m.allocations[j]).offset = p
                                      /\ Unwrap(m.allocations[j]).kind = kind}}

\* the addresses callers hand in: every offset of the arena, one below its
\* base and two from its end on
AnyPtrs == (0 - 1) .. (HEAP_SIZE + 1)

\* the call failed and changed nothing
Refused(r) == ~r.ok /\ r.m = memory

(***************************************************************************)
(* C24: free on a Mapping allocation, munmap on a Heap allocation, munmap  *)
(* with a length above the recorded size, and free or munmap of an address *)
(* outside the arena or not the start of a live allocation return false    *)
(* and leave records, free regions, bump_offset and statistics unchanged.  *)
(***************************************************************************)
C24_BadReleaseRefused ==
    \A p \in AnyPtrs, length \in {1, PAGE_SIZE, PAGE_SIZE + 1, 2 * PAGE_SIZE} :
        /\ RecordsAt(memory, p, "Mapping") /= {}
              => Refused(MemoryManager_free(memory, p))
        /\ RecordsAt(memory, p, "Heap") /= {}
              => Refused(MemoryManager_munmap(memory, [ptr |-> p, length |-> length]))
        /\ (\E rec \in RecordsAt(memory, p, "Mapping") : length > rec.size)
              => Refused(MemoryManager_munmap(memory, [ptr |-> p, length |-> length]))
        /\ (p < 0 \/ p >= HEAP_SIZE
               \/ RecordsAt(memory, p, "Heap") \cup RecordsAt(memory, p, "Mapping") = {})
              => /\ Refused(MemoryManager_free(memory, p))
                 /\ Refused(MemoryManager_munmap(memory, [ptr |-> p, length |-> length]))

\* the slots of a scheduler ring that hold an entry
OccupiedSlots(s) == {i \in ThreadSlots : IsSome(s.queue[i])}

(***************************************************************************)
(* C26: after any sequence of enqueue, requeue, next, remove_thread and    *)
(* remove_process the scheduler's len is the number of occupied slots, and *)
(* an enqueue or requeue that succeeds writes into a slot that was empty.  *)
(***************************************************************************)
C26_LenCountsSlots ==
    /\ [](ring.len = Cardinality(OccupiedSlots(ring)))
    /\ [][(ring_obs'.count /= ring_obs.count /\ ring' /= ring)
            => ring.tail \notin OccupiedSlots(ring)]_vars

\* the threads that may run: Ready TCBs of a process that is in the process
\* table and not Blocked
Runnable(k) ==
    {tcb \in LiveTcbs(k) :
        /\ tcb.state = "Ready"
        /\ \E pcb \in LivePcbs(k) : pcb.pid = tcb.process /\ pcb.state /= "Blocked"}

(***************************************************************************)
(* C25: between facade operations every TCB that is Ready and whose        *)
(* process is not Blocked has an entry in the scheduler ring.              *)
(***************************************************************************)
C25_RunnableIsQueued ==
    \A tcb \in Runnable(kernel) :
        \E entry \in RingEntries(kernel.scheduler) : entry.thread = tcb.id

\* the pids whose PCB is in the process table of k in state Blocked
BlockedPids(k) == {pcb.pid : pcb \in {b \in LivePcbs(k) : b.state = "Blocked"}}

(***************************************************************************)
(* C27: a PCB that is Blocked and stays in the process table leaves the    *)
(* state Blocked only in a successful send_message that wakes it, and then *)
(* it is Ready: no tick, spawn_thread or receive_message makes it Ready or *)
(* Running.                                                                *)
(***************************************************************************)
C27_OnlySendUnblocks ==
    [][\A pid \in BlockedPids(kernel) :
          (pid \in LivePids(kernel') /\ PcbOf(kernel', pid).state /= "Blocked")
          => /\ done'.op = "send_message" /\ done'.res = "Ok" /\ done'.woke
             /\ PcbOf(kernel', pid).state = "Ready"]_vars

(***************************************************************************)
(* C28: within one tick() no thread is dispatched by two cores: the        *)
(* threads the tick ran are pairwise different, and the cpu_time of every  *)
(* TCB grows by at most 1, however many cores are online and however many  *)
(* threads the ring holds.                                                 *)
(***************************************************************************)
C28_OneDispatchPerTick ==
    [][(done'.op = "tick" /\ hw_clock'.counter = hw_clock.counter + 1)
        => /\ \A i \in DOMAIN done'.ran, j \in DOMAIN done'.ran :
                  i /= j => done'.ran[i] /= done'.ran[j]
           /\ \A before \in LiveTcbs(kernel), after \in LiveTcbs(kernel') :
                  before.id = after.id => after.cpu_time <= before.cpu_time + 1]_vars

\* the messages stored in a message queue
QueuedMessages(q) == {Unwrap(q.buffer[i]) : i \in {j \in MsgSlots : IsSome(q.buffer[j])}}

(***************************************************************************)
(* C29: confinement.  For every process r in the process table and every   *)
(* message stored in r's IPC queue, r has a registered security domain and *)
(* its label dominates the label of the message's payload class.           *)
(***************************************************************************)
C29_Confinement ==
    \A i \in ProcSlots :
        IsSome(kernel.process_table[i]) =>
            \A message \in QueuedMessages(kernel.ipc_queues[i]) :
                /\ message.receiver = Unwrap(kernel.process_table[i]).pid
                /\ \E rd \in Domains(kernel.security) :
                       /\ rd.pid = message.receiver
                       /\ dominates(rd.label, as_label(message.payload.security_class))

\* a message above Public is stored for its receiver while a process whose
\* label does not dominate that class is registered too
C29_Witness ==
    \E i \in ProcSlots :
        /\ IsSome(kernel.process_table[i])
        /\ \E message \in QueuedMessages(kernel.ipc_queues[i]) :
               /\ message.payload.security_class \in {"Confidential", "System"}
               /\ \E other \in Domains(kernel.security) :
                      ~dominates(other.label, as_label(message.payload.security_class))

\* the slots of a security table that hold a domain
OccupiedDomains(sec) == {i \in ProcSlots : IsSome(sec.domains[i])}

(***************************************************************************)
(* C30: after any sequence of register_task and revoke_task, lookup finds  *)
(* every pid that was registered and not revoked since (and returns the    *)
(* domain of that pid), finds no other pid, and population is the number   *)
(* of occupied slots.                                                      *)
(***************************************************************************)
C30_TableTracksTasks ==
    /\ \A pid \in TablePids :
           /\ pid \in table_obs.registered <=> IsSome(lookup(table, pid))
           /\ IsSome(lookup(table, pid)) => Unwrap(lookup(table, pid)).pid = pid
    /\ table.population = Cardinality(OccupiedDomains(table))

\* a registered pid has just been revoked, and a pid with the same hash slot
\* that is still registered sits in that slot: it had been pushed along the
\* probe chain and the removal brought it back
C30_Witness ==
    /\ table_obs.ret.op = "revoke_task" /\ table_obs.ret.was
    /\ \E pid \in table_obs.registered :
           /\ hash(pid) = hash(table_obs.ret.pid)
           /\ IsSome(table.domains[hash(pid)])
           /\ Unwrap(table.domains[hash(pid)]).pid = pid

(***************************************************************************)
(* C31: in every reachable state and for every sender, receiver and class, *)
(* a send_message that returns an error leaves the whole kernel as it was, *)
(* the message sequence counter included.                                  *)
(***************************************************************************)
C31_FailedSendChangesNothing ==
    \A sender \in IpcPids, receiver \in IpcPids, class \in Classes :
        LET r == Kernel_send_message(kernel, sender, receiver, MessagePayload_empty(class))
        IN r.res /= "Ok" => r.k = kernel

(***************************************************************************)
(* C32: in every reachable state every message stored in the IPC queue of  *)
(* process-table slot i has as receiver the pid of the PCB in slot i, and  *)
(* the queue of an empty slot holds nothing.                               *)
(***************************************************************************)
C32_QueueBelongsToOccupant ==
    \A i \in ProcSlots :
        IF IsSome(kernel.process_table[i])
        THEN \A message \in QueuedMessages(kernel.ipc_queues[i]) :
                 message.receiver = Unwrap(kernel.process_table[i]).pid
        ELSE /\ QueuedMessages(kernel.ipc_queues[i]) = {}
             /\ kernel.ipc_queues[i].len = 0

\* a slot that an earlier process has left holds a later process, and a
\* message for that process is stored in the slot's queue
C32_Witness ==
    \E i \in ProcSlots :
        /\ IsSome(kernel.process_table[i])
        /\ Unwrap(kernel.process_table[i]).pid > MAX_PROC
        /\ QueuedMessages(kernel.ipc_queues[i]) /= {}

\* the thread ids that have an entry in a scheduler ring
QueuedThreads(s) == {entry.thread : entry \in RingEntries(s)}

\* what a cycle of a core that ran a thread has to leave in the ring, for the
\* kernel k before the cycle and the result r of run_core
CycleKeepsRing(k, r) ==
    IsSome(r.ran) =>
        /\ Scheduler_requeue(Scheduler_next(k.scheduler).s,
                             Unwrap(Scheduler_next(k.scheduler).entry)).res = "Ok"
        /\ Unwrap(r.ran) \in QueuedThreads(r.k.scheduler)
        /\ QueuedThreads(k.scheduler) \subseteq QueuedThreads(r.k.scheduler)

(***************************************************************************)
(* C33: in every reachable state, a dispatch cycle of core 0 that runs a   *)
(* thread normally re-enqueues it without QueueFull, and after the cycle   *)
(* the ring holds the dispatched thread and every thread it held before.   *)
(***************************************************************************)
C33_CycleKeepsEntries == CycleKeepsRing(kernel, run_core(kernel, 0))

(***************************************************************************)
(* C34: between facade operations each thread id appears in at most one    *)
(* slot of the scheduler ring.                                             *)
(***************************************************************************)
C34_OneEntryPerThread ==
    \A i \in OccupiedSlots(kernel.scheduler), j \in OccupiedSlots(kernel.scheduler) :
        i /= j => Unwrap(kernel.scheduler.queue[i]).thread
                      /= Unwrap(kernel.scheduler.queue[j]).thread

\* a send has just woken a blocked process with several threads, after a
\* tick: the ring holds more than one entry again
C34_Witness ==
    /\ done.op = "send_message" /\ done.woke
    /\ Cardinality(OccupiedSlots(kernel.scheduler)) >= 2
    /\ hw_clock.counter > 0

\* C35: between two facade operations nothing is marked as running: no PCB
\* and no TCB is in state Running, and the current_thread of every core is
\* None
C35_NothingRunsBetweenCalls ==
    /\ \A pcb \in LivePcbs(kernel) : pcb.state /= "Running"
    /\ \A tcb \in LiveTcbs(kernel) : tcb.state /= "Running"
    /\ \A c \in DOMAIN kernel.core_states :
           kernel.core_states[c].current_thread = None

\* a tick has just run a thread while a second core was online
C35_Witness ==
    /\ done.op = "tick" /\ done.ran /= <<>>
    /\ online_core_count(kernel) >= 2

\* C36: the sequence numbers of the messages that were sent successfully grow
\* strictly in the order of sending, across the whole kernel: the message
\* just sent carries the last number the counter gave out, every number
\* in a queue is below the counter the next message will take, in each IPC
\* queue the numbers grow strictly from head to tail, and no two queued
\* messages of the kernel have the same number
QueuedSequences(q) == {message.sequence : message \in QueuedMessages(q)}
C36_SequencesIncrease ==
    /\ \A i \in ProcSlots :
           LET contents == QueueContents(kernel.ipc_queues[i])
           IN /\ \A a \in DOMAIN contents, b \in DOMAIN contents :
                    a < b => contents[a].sequence < contents[b].sequence
              /\ \A a \in DOMAIN contents :
                    contents[a].sequence < kernel.message_sequence
    /\ \A i \in ProcSlots, j \in ProcSlots :
           i /= j => QueuedSequences(kernel.ipc_queues[i])
                        \cap QueuedSequences(kernel.ipc_queues[j]) = {}
    /\ done.op = "send_message" /\ done.res = "Ok" =>
           \E i \in ProcSlots :
               /\ kernel.ipc_queues[i].len > 0
               /\ LET contents == QueueContents(kernel.ipc_queues[i])
                  IN /\ contents[Len(contents)].sequence = kernel.message_sequence - 1
                     /\ \A j \in ProcSlots :
                            \A message \in QueuedMessages(kernel.ipc_queues[j]) :
                                message.sequence <= contents[Len(contents)].sequence

\* one queue is full and the other queue holds a message too
C36_Witness ==
    \E i \in ProcSlots, j \in ProcSlots :
        /\ i /= j
        /\ kernel.ipc_queues[i].len = MSG_DEPTH
        /\ kernel.ipc_queues[j].len > 0

\* C37: on every tick each online core adds 1 to exactly one of its counters
\* local_ticks and idle_ticks, and the counters of an offline core stay as
\* they are
CountsOneCycle(before, after) ==
    IF before.online
    THEN \/ /\ after.local_ticks = before.local_ticks + 1
            /\ after.idle_ticks = before.idle_ticks
         \/ /\ after.local_ticks = before.local_ticks
            /\ after.idle_ticks = before.idle_ticks + 1
    ELSE /\ after.local_ticks = before.local_ticks
         /\ after.idle_ticks = before.idle_ticks
C37_OneCounterPerCycle ==
    [][ Tick(FaultMaxTicks) =>
            \A c \in Cores : CountsOneCycle(kernel.core_states[c], kernel'.core_states[c])
      ]_vars

\* C38: a malloc, a malloc_aligned or an mmap that returns None leaves the
\* allocator as it was: bump_offset, the free regions, the allocation
\* records and the statistics
C38_FailedAllocationChangesNothing ==
    /\ \A size \in Sizes :
           LET r == MemoryManager_malloc(memory, size)
           IN r.ptr = None => r.m = memory
    /\ \A size \in Sizes, align \in Aligns :
           LET r == MemoryManager_malloc_aligned(memory, size, align)
           IN r.ptr = None => r.m = memory
    /\ \A length \in Lengths :
           LET r == MemoryManager_mmap(memory, length, MemoryProtection_read_only)
           IN r.region = None => r.m = memory

\* C39: the clock value read after a tick of the kernel is never below the
\* value read after an earlier tick, whatever was done in between to this
\* kernel or to another Kernel instance (bootstrap, spawn, tick)
C39_TickReadsNeverGoBack ==
    [][ (done.op = "tick" /\ ClockNow(1) /\ IsSome(clock_obs.seen[1]))
            => clock_obs'.ret.value >= Unwrap(clock_obs.seen[1])
      ]_vars

\* the slots of a security table that hold the domain of pid
SlotsOf(sec, pid) == {i \in OccupiedDomains(sec) : Unwrap(sec.domains[i]).pid = pid}

\* what register_task(pid, creds) may do to the table `before`: r is what it
\* returned
RegistersOrRefuses(before, pid, creds, r) ==
    /\ r.res \in {"Ok", "PolicyViolation"}
    /\ r.res = "PolicyViolation" =>
           /\ OccupiedDomains(before) = ProcSlots
           /\ SlotsOf(before, pid) = {}
           /\ r.sec = before
    /\ SlotsOf(before, pid) /= {} =>
           /\ r.res = "Ok"
           /\ r.sec.population = before.population
           /\ SlotsOf(r.sec, pid) = SlotsOf(before, pid)
           /\ Cardinality(SlotsOf(r.sec, pid)) = 1
           /\ \A i \in ProcSlots :
                  r.sec.domains[i] = IF i \in SlotsOf(before, pid)
                                     THEN Some(TaskDomain_from_credentials(pid, creds))
                                     ELSE before.domains[i]
           /\ \A i \in SlotsOf(r.sec, pid) : Unwrap(r.sec.domains[i]).quarantine_events = 0

\* C40: in every table that register_task and revoke_task can build, and in
\* the same table with a quarantine event counted against the pid, a
\* register_task(pid, creds) fails with PolicyViolation only when every slot
\* holds another pid, and for a pid that is registered it succeeds, puts the
\* domain made from creds (quarantine counter 0) in the slot the pid had,
\* and leaves population and all other slots as they were
C40_RegisterReplaces ==
    \A pid \in TablePids, creds \in {Credentials_system, Credentials_user} :
        /\ RegistersOrRefuses(table, pid, creds, register_task(table, pid, creds))
        /\ RegistersOrRefuses(set_quarantine_events(table, pid, 1), pid, creds,
               register_task(set_quarantine_events(table, pid, 1), pid, creds))

\* a register_task has just been refused on a full table in which a pid sits
\* behind its hash slot, and another one has the slot
C40_Witness ==
    /\ table_obs.ret.op = "register_task" /\ table_obs.ret.res = "PolicyViolation"
    /\ table.population = MAX_PROC
    /\ \E i \in OccupiedDomains(table) : hash(Unwrap(table.domains[i]).pid) /= i

====
